---- MODULE Spec2Model ----
\* gh-stars (github.com/Link-/gh-stars): the fingerprinted read-through cache of
\* cmd/root.go.  GenerateCacheKey hashes the Link header of a one-item probe,
\* GetCachePath turns the key (or the --cache-file override) into a path, and
\* GetStarredRepos serves the file at that path or fetches and stores the
\* dataset.  Byte strings (the Link header, file contents, provider output) are
\* sequences of byte values; paths, header values and error messages are
\* strings.
EXTENDS Integers, Sequences, FiniteSets, TLC

VARIABLES
  stars,      \* GitHub: account id -> set of repositories the account has starred
  files,      \* the file system: path -> content, for the files that exist
  unnamed,    \* the files that were removed while they were held open: tag -> content
  writer,     \* the test that prepares the cache file: its step, its path, the file it holds open
  stored,     \* history: path -> the store GetStarredRepos made there, while the file is untouched since
  last,       \* observation of the call of a single function just made
  prev,       \* summary of the call before it, for the calls of single functions
  calls,      \* number of invocations started so far
  srch,       \* the call of Search: its inputs, then the queue and error it returned
  rend,       \* the call of Render on that queue: its limit, the queue left, the items popped
  runs        \* the invocations of the command, each at its step of rootCmd.Run

vars == <<stars, files, unnamed, writer, stored, last, prev, calls, srch, rend, runs>>

\* ---------------------------------------------------------------------------
\* Bounds of the model
\* ---------------------------------------------------------------------------
MaxRepo == 3
MaxCalls == 2
PerPage == 2

\* ---------------------------------------------------------------------------
\* Values
\* ---------------------------------------------------------------------------
Nil == "<nil>"

Repos == 1..MaxRepo

\* fmt.Sprintf("%d", n) as a string, n >= 0
RECURSIVE Itoa(_)
Itoa(n) ==
  LET d == <<"0", "1", "2", "3", "4", "5", "6", "7", "8", "9">>[(n % 10) + 1]
  IN  IF n < 10 THEN d ELSE Itoa(n \div 10) \o d

\* the same decimal rendering as bytes
RECURSIVE ItoaBytes(_)
ItoaBytes(n) ==
  IF n < 10 THEN <<48 + n>> ELSE ItoaBytes(n \div 10) \o <<48 + (n % 10)>>

\* fmt.Sprintf("%x", b) of a byte slice: two lower-case hex digits per byte
RECURSIVE HexString(_)
HexString(bs) ==
  LET hd == <<"0", "1", "2", "3", "4", "5", "6", "7", "8", "9", "a", "b", "c", "d", "e", "f">>
  IN  IF bs = <<>> THEN ""
      ELSE hd[(bs[1] \div 16) + 1] \o hd[(bs[1] % 16) + 1] \o HexString(Tail(bs))

\* ---------------------------------------------------------------------------
\* crypto/sha256.Sum256 (FIPS 180-4).  A 32-bit word is a pair <<hi, lo>> of
\* 16-bit halves, so that every intermediate value fits a machine integer.
\* ---------------------------------------------------------------------------
Pow2(n) == 2 ^ n

\* bitwise operations on 4-bit digits, tabulated once
XorNib ==
  [a \in 0..15, b \in 0..15 |->
     LET bit(x, i) == (x \div Pow2(i)) % 2
     IN  ((bit(a, 3) + bit(b, 3)) % 2) * 8 + ((bit(a, 2) + bit(b, 2)) % 2) * 4
       + ((bit(a, 1) + bit(b, 1)) % 2) * 2 + ((bit(a, 0) + bit(b, 0)) % 2)]

AndNib ==
  [a \in 0..15, b \in 0..15 |->
     LET bit(x, i) == (x \div Pow2(i)) % 2
     IN  (bit(a, 3) * bit(b, 3)) * 8 + (bit(a, 2) * bit(b, 2)) * 4
       + (bit(a, 1) * bit(b, 1)) * 2 + (bit(a, 0) * bit(b, 0))]

Xor16(a, b) ==
    XorNib[a \div 4096, b \div 4096] * 4096
  + XorNib[(a \div 256) % 16, (b \div 256) % 16] * 256
  + XorNib[(a \div 16) % 16, (b \div 16) % 16] * 16
  + XorNib[a % 16, b % 16]

And16(a, b) ==
    AndNib[a \div 4096, b \div 4096] * 4096
  + AndNib[(a \div 256) % 16, (b \div 256) % 16] * 256
  + AndNib[(a \div 16) % 16, (b \div 16) % 16] * 16
  + AndNib[a % 16, b % 16]

Xor32(x, y) == <<Xor16(x[1], y[1]), Xor16(x[2], y[2])>>
And32(x, y) == <<And16(x[1], y[1]), And16(x[2], y[2])>>
Not32(x) == <<65535 - x[1], 65535 - x[2]>>

\* x + y mod 2^32
Add32(x, y) ==
  LET lo == x[2] + y[2]
  IN  <<(x[1] + y[1] + lo \div 65536) % 65536, lo % 65536>>

\* bits.RotateLeft32(x, -n), 0 <= n < 32
Rotr32(x, n) ==
  LET h == IF n >= 16 THEN x[2] ELSE x[1]
      l == IF n >= 16 THEN x[1] ELSE x[2]
      m == n % 16
  IN  <<(h \div Pow2(m)) + (l % Pow2(m)) * Pow2(16 - m),
        (l \div Pow2(m)) + (h % Pow2(m)) * Pow2(16 - m)>>

\* x >> n, 0 <= n < 16
Shr32(x, n) ==
  <<x[1] \div Pow2(n), (x[2] \div Pow2(n)) + (x[1] % Pow2(n)) * Pow2(16 - n)>>

\* round constants _K and initial hash value init0..init7
ShaK ==
  <<
     <<17034, 12184>>, <<28983, 17553>>, <<46528, 64463>>, <<59829, 56229>>,
     <<14678, 49755>>, <<23025, 4593>>, <<37439, 33444>>, <<43804, 24277>>,
     <<55303, 43672>>, <<4739, 23297>>, <<9265, 34238>>, <<21772, 32195>>,
     <<29374, 23924>>, <<32990, 45566>>, <<39900, 1703>>, <<49563, 61812>>,
     <<58523, 27073>>, <<61374, 18310>>, <<4033, 40390>>, <<9228, 41420>>,
     <<11753, 11375>>, <<19060, 33962>>, <<23728, 43484>>, <<30457, 35034>>,
     <<38974, 20818>>, <<43057, 50797>>, <<45059, 10184>>, <<48985, 32711>>,
     <<50912, 3059>>, <<54695, 37191>>, <<1738, 25425>>, <<5161, 10599>>,
     <<10167, 2693>>, <<11803, 8504>>, <<19756, 28156>>, <<21304, 3347>>,
     <<25866, 29524>>, <<30314, 2747>>, <<33218, 51502>>, <<37490, 11397>>,
     <<41663, 59553>>, <<43034, 26187>>, <<49739, 35696>>, <<51052, 20899>>,
     <<53650, 59417>>, <<54937, 1572>>, <<62478, 13701>>, <<4202, 41072>>,
     <<6564, 49430>>, <<7735, 27656>>, <<10056, 30540>>, <<13488, 48309>>,
     <<14620, 3251>>, <<20184, 43594>>, <<23452, 51791>>, <<26670, 28659>>,
     <<29839, 33518>>, <<30885, 25455>>, <<33992, 30740>>, <<36039, 520>>,
     <<37054, 65530>>, <<42064, 27883>>, <<48889, 41975>>, <<50801, 30962>>
  >>

ShaInit ==
  <<
     <<27145, 58983>>, <<47975, 44677>>, <<15470, 62322>>, <<42319, 62778>>,
     <<20750, 21119>>, <<39685, 26764>>, <<8067, 55723>>, <<23520, 52505>>
  >>

\* message padding: 0x80, zeros up to 56 mod 64, then the bit length as a
\* big-endian 64-bit integer (lengths below 2^24 bits are all the model needs)
ShaPad(msg) ==
  LET n     == Len(msg)
      zeros == (119 - (n % 64)) % 64
      bits  == n * 8
  IN  msg \o <<128>> \o [i \in 1..zeros |-> 0]
          \o <<0, 0, 0, 0, 0, (bits \div 65536) % 256, (bits \div 256) % 256, bits % 256>>

\* the 64-entry message schedule of block number b (from 0) of padded message p
RECURSIVE ShaSchedule(_, _, _)
ShaSchedule(p, b, w) ==
  LET t == Len(w)
  IN  IF t = 64 THEN w
      ELSE IF t < 16
      THEN LET o == b * 64 + t * 4
           IN  ShaSchedule(p, b, Append(w, <<p[o + 1] * 256 + p[o + 2], p[o + 3] * 256 + p[o + 4]>>))
      ELSE LET v1 == w[t - 1]
               v2 == w[t - 14]
               s1 == Xor32(Xor32(Rotr32(v1, 17), Rotr32(v1, 19)), Shr32(v1, 10))
               s0 == Xor32(Xor32(Rotr32(v2, 7), Rotr32(v2, 18)), Shr32(v2, 3))
           IN  ShaSchedule(p, b, Append(w, Add32(Add32(s1, w[t - 6]), Add32(s0, w[t - 15]))))

\* the 64 rounds on working variables v = <<a, b, c, d, e, f, g, h>>
RECURSIVE ShaRounds(_, _, _)
ShaRounds(w, v, t) ==
  IF t > 64 \/ Len(v) # 8 THEN v
  ELSE LET a == v[1]
           e == v[5]
           S1 == Xor32(Xor32(Rotr32(e, 6), Rotr32(e, 11)), Rotr32(e, 25))
           ch == Xor32(And32(e, v[6]), And32(Not32(e), v[7]))
           t1 == Add32(Add32(Add32(v[8], S1), Add32(ch, ShaK[t])), w[t])
           S0 == Xor32(Xor32(Rotr32(a, 2), Rotr32(a, 13)), Rotr32(a, 22))
           mj == Xor32(Xor32(And32(a, v[2]), And32(a, v[3])), And32(v[2], v[3]))
           t2 == Add32(S0, mj)
       IN  ShaRounds(w, <<Add32(t1, t2), a, v[2], v[3], Add32(v[4], t1), e, v[6], v[7]>>, t + 1)

RECURSIVE ShaBlocks(_, _, _)
ShaBlocks(p, b, h) ==
  IF b * 64 >= Len(p) THEN h
  ELSE LET v == ShaRounds(ShaSchedule(p, b, <<>>), h, 1)
       IN  ShaBlocks(p, b + 1, [i \in 1..8 |-> Add32(h[i], v[i])])

\* sha256.Sum256(data): the digest as 32 bytes
Sum256(data) ==
  LET h == ShaBlocks(ShaPad(data), 0, ShaInit)
  IN  [i \in 1..32 |->
         LET wd == h[(i - 1) \div 4 + 1]
             k  == (i - 1) % 4
         IN  IF k = 0 THEN wd[1] \div 256
             ELSE IF k = 1 THEN wd[1] % 256
             ELSE IF k = 2 THEN wd[2] \div 256
             ELSE wd[2] % 256]

\* ---------------------------------------------------------------------------
\* The environment: GitHub, the gh client and the user's shell
\* ---------------------------------------------------------------------------
\* handles given with --user and the account each names (a handle is matched
\* without regard to case: README.md uses link-, the tests Link-)
Users == {"Link-", "link-", "octocat"}
AccountOf(u) == IF u = "octocat" THEN 583231 ELSE 12345
Accounts == {AccountOf(u) : u \in Users}

\* <https://api.github.com/user/
LinkUser ==
  <<60, 104, 116, 116, 112, 115, 58, 47, 47, 97, 112, 105, 46, 103, 105, 116, 104, 117, 98, 46, 99, 111, 109, 47, 117, 115, 101, 114, 47>>
\* /starred?page=
LinkPage == <<47, 115, 116, 97, 114, 114, 101, 100, 63, 112, 97, 103, 101, 61>>
\* &per_page=1>; rel="next", 
LinkNext ==
  <<38, 112, 101, 114, 95, 112, 97, 103, 101, 61, 49, 62, 59, 32, 114, 101, 108, 61, 34, 110, 101, 120, 116, 34, 44, 32>>
\* &per_page=1>; rel="last"
LinkLast ==
  <<38, 112, 101, 114, 95, 112, 97, 103, 101, 61, 49, 62, 59, 32, 114, 101, 108, 61, 34, 108, 97, 115, 116, 34>>

\* The Link header GitHub puts on page 1 of a listing of `count` items at one
\* item per page: "next" is page 2 and "last" is page `count`.  A listing that
\* fits a single page (count <= 1) carries no Link header, and
\* resp.Header.Get("Link") is then the empty string.
LinkHeader(id, count) ==
  IF count <= 1 THEN <<>>
  ELSE LinkUser \o ItoaBytes(id) \o LinkPage \o <<50>> \o LinkNext
    \o LinkUser \o ItoaBytes(id) \o LinkPage \o ItoaBytes(count) \o LinkLast

\* the Link header of TestGenerateCacheKey/Testing200Response (843 pages)
TestLink == LinkHeader(12345, 843)

\* an http.Response as GenerateCacheKey reads it; err is the error of client.Do
Response(err, status, link, used, remaining, reset, body) ==
  [err |-> err, status |-> status, link |-> link, used |-> used,
   remaining |-> remaining, reset |-> reset, body |-> body]

\* client.Do(req) for the probe of `user` against GitHub in state st
ClientDo(user, st) ==
  { Response(Nil, 200, LinkHeader(AccountOf(user), Cardinality(st[AccountOf(user)])),
             "1", "59", "1630000000", "OK"),
    Response(Nil, 403, <<>>, "5000", "0", "1630000000", "OK"),
    Response(Nil, 404, <<>>, "", "", "", "OK"),
    Response(Nil, 500, <<>>, "", "", "", "OK"),
    Response("dial tcp: connection refused", 0, <<>>, "", "", "", "") }

\* one record of the listing: {"name":"<letter>"}
RepoJson(r) == <<123, 34, 110, 97, 109, 101, 34, 58, 34, 96 + r, 34, 125>>

\* the elements of a set of numbers in increasing order
RECURSIVE SetToSeq(_)
SetToSeq(S) ==
  IF S = {} THEN <<>>
  ELSE LET m == CHOOSE x \in S : \A y \in S : x <= y
       IN  <<m>> \o SetToSeq(S \ {m})

\* the records of one page joined by commas
RECURSIVE JoinRecords(_)
JoinRecords(rs) ==
  IF rs = <<>> THEN <<>>
  ELSE IF Len(rs) = 1 THEN RepoJson(rs[1])
  ELSE RepoJson(rs[1]) \o <<44>> \o JoinRecords(Tail(rs))

\* gh api --paginate prints the JSON array of every page one after the other
RECURSIVE Pages(_)
Pages(rs) ==
  IF Len(rs) <= PerPage THEN <<91>> \o JoinRecords(rs) \o <<93>>
  ELSE <<91>> \o JoinRecords(SubSeq(rs, 1, PerPage)) \o <<93>>
       \o Pages(SubSeq(rs, PerPage + 1, Len(rs)))

Paginate(S) == Pages(SetToSeq(S))

\* "mock output", the standard output of MockGithub.Exec
MockOutput == <<109, 111, 99, 107, 32, 111, 117, 116, 112, 117, 116>>

\* the bytes TestGetStarredRepos/FetchStarredReposFromCache puts in its cache file
TestCacheContent ==
  <<
     123, 34, 114, 101, 112, 111, 115, 34, 58, 32, 91, 123, 34, 110, 97, 109, 101, 34, 58, 32,
     34, 116, 101, 115, 116, 45, 99, 97, 99, 104, 101, 45, 102, 105, 108, 101, 34, 44, 32, 34,
     117, 114, 108, 34, 58, 32, 34, 104, 116, 116, 112, 115, 58, 47, 47, 103, 105, 116, 104, 117,
     98, 46, 99, 111, 109, 47, 116, 101, 115, 116, 47, 114, 101, 112, 111, 34, 125, 93, 125
  >>

\* ghClient.Exec("api", "--paginate", "users/<user>/starred"): the outcomes of
\* the client in use, as [stdout, err].  ghClient is an interface: MockGithub is
\* the client of the tests, "github" the gh command
Exec(client, user, st) ==
  IF client = "MockGithub" THEN { [stdout |-> MockOutput, err |-> Nil] }
  ELSE { [stdout |-> Paginate(st[AccountOf(user)]), err |-> Nil],
         [stdout |-> <<>>, err |-> "gh: exit status 1"] }

\* ---------------------------------------------------------------------------
\* cmd/root.go
\* ---------------------------------------------------------------------------
\* [32]byte{}
ZeroKey == [i \in 1..32 |-> 0]

\* the Link headers GitHub can send in this model
LinkValues ==
  {LinkHeader(a, c) : a \in Accounts, c \in 0..MaxRepo} \cup {TestLink}

\* their digests, computed once
KeyTable == [h \in LinkValues |-> Sum256(h)]

\* sha256.Sum256([]byte(header))
HeaderDigest(header) ==
  IF header \in LinkValues THEN KeyTable[header] ELSE Sum256(header)

\* Faulty variant: the switch has no default case, so every status other than
\* 403 and 404 is hashed
GenerateCacheKeyNoDefault(user, resp) ==
  IF user = ""
  THEN [key |-> ZeroKey, err |-> "user cannot be empty, the implementation is faulty."]
  ELSE IF resp.err # Nil
  THEN [key |-> ZeroKey, err |-> resp.err]
  ELSE IF resp.status = 403
  THEN [key |-> ZeroKey,
        err |-> "API rate limit reached. Used: " \o resp.used \o ", Remaining: "
                \o resp.remaining \o ", Reset Time: " \o resp.reset]
  ELSE IF resp.status = 404
  THEN [key |-> ZeroKey,
        err |-> "User not found or you're not authorized to access this data."]
  ELSE [key |-> HeaderDigest(resp.link), err |-> Nil]

\* Faulty variant: the body of the answer is hashed together with the header
GenerateCacheKeyWithBody(user, resp) ==
  IF user = ""
  THEN [key |-> ZeroKey, err |-> "user cannot be empty, the implementation is faulty."]
  ELSE IF resp.err # Nil
  THEN [key |-> ZeroKey, err |-> resp.err]
  ELSE IF resp.status = 403
  THEN [key |-> ZeroKey,
        err |-> "API rate limit reached. Used: " \o resp.used \o ", Remaining: "
                \o resp.remaining \o ", Reset Time: " \o resp.reset]
  ELSE IF resp.status = 404
  THEN [key |-> ZeroKey,
        err |-> "User not found or you're not authorized to access this data."]
  ELSE IF resp.status = 200
  THEN [key |-> Sum256(resp.link \o (IF resp.body = "OK" THEN <<79, 75>> ELSE <<91, 93>>)),
        err |-> Nil]
  ELSE [key |-> ZeroKey, err |-> "Unexpected HTTP status code: " \o Itoa(resp.status)]

\* GenerateCacheKey(user) when client.Do answers resp: [key, err]
GenerateCacheKey(user, resp) ==
  IF user = ""
  THEN [key |-> ZeroKey, err |-> "user cannot be empty, the implementation is faulty."]
  ELSE IF resp.err # Nil
  THEN [key |-> ZeroKey, err |-> resp.err]
  ELSE IF resp.status = 403
  THEN [key |-> ZeroKey,
        err |-> "API rate limit reached. Used: " \o resp.used \o ", Remaining: "
                \o resp.remaining \o ", Reset Time: " \o resp.reset]
  ELSE IF resp.status = 404
  THEN [key |-> ZeroKey,
        err |-> "User not found or you're not authorized to access this data."]
  ELSE IF resp.status = 200
  THEN [key |-> HeaderDigest(resp.link), err |-> Nil]
  ELSE [key |-> ZeroKey, err |-> "Unexpected HTTP status code: " \o Itoa(resp.status)]

\* os.TempDir()
TempDir == "/tmp"

\* filepath.Join(dir, name)
Join(dir, name) == dir \o "/" \o name

\* fileExists(filePath) on file system fs
fileExists(filePath, fs) == filePath \in DOMAIN fs

\* the file system after the file at path was created empty
CreateFile(fs, path) ==
  [p \in DOMAIN fs \cup {path} |-> IF p = path THEN <<>> ELSE fs[p]]

\* the error of os.Open and os.OpenFile for a path at which no file exists
NotExist(path) == "open " \o path \o ": no such file or directory"

\* Faulty variant: the key is checked before the override
GetCachePathKeyFirst(cacheKey, cf) ==
  IF cacheKey = ZeroKey
  THEN [path |-> "", err |-> "cacheKey cannot be empty, the implementation is faulty.",
        derived |-> FALSE]
  ELSE IF cf # ""
  THEN [path |-> cf, err |-> Nil, derived |-> FALSE]
  ELSE [path |-> Join(TempDir, "stars_" \o HexString(SubSeq(cacheKey, 1, 6)) \o ".json"),
        err |-> Nil, derived |-> TRUE]

\* Faulty variant: the name is made of the first 8 bytes of the key
GetCachePathEightBytes(cacheKey, cf) ==
  IF cf # ""
  THEN [path |-> cf, err |-> Nil, derived |-> FALSE]
  ELSE IF cacheKey = ZeroKey
  THEN [path |-> "", err |-> "cacheKey cannot be empty, the implementation is faulty.",
        derived |-> FALSE]
  ELSE [path |-> Join(TempDir, "stars_" \o HexString(SubSeq(cacheKey, 1, 8)) \o ".json"),
        err |-> Nil, derived |-> TRUE]

\* Faulty variant: the all-zero key is not rejected
GetCachePathNoKeyCheck(cacheKey, cf) ==
  IF cf # ""
  THEN [path |-> cf, err |-> Nil, derived |-> FALSE]
  ELSE [path |-> Join(TempDir, "stars_" \o HexString(SubSeq(cacheKey, 1, 6)) \o ".json"),
        err |-> Nil, derived |-> TRUE]

\* a --cache-file path that is made to depend on the key, by a suffix with
\* the first bytes of the key
GetCachePathKeyed(cacheKey, cf) ==
  IF cf # ""
  THEN [path |-> cf \o "." \o HexString(SubSeq(cacheKey, 1, 6)), err |-> Nil,
        derived |-> FALSE]
  ELSE IF cacheKey = ZeroKey
  THEN [path |-> "", err |-> "cacheKey cannot be empty, the implementation is faulty.",
        derived |-> FALSE]
  ELSE [path |-> Join(TempDir, "stars_" \o HexString(SubSeq(cacheKey, 1, 6)) \o ".json"),
        err |-> Nil, derived |-> TRUE]

\* GetCachePath(cacheKey) with the package variable cacheFile = cf, up to its
\* look at the file system: the path, or the error; a path derived from the
\* key is the one whose file GetCachePath goes on to look for and to create
GetCachePath(cacheKey, cf) ==
  IF cf # ""
  THEN [path |-> cf, err |-> Nil, derived |-> FALSE]
  ELSE IF cacheKey = ZeroKey
  THEN [path |-> "", err |-> "cacheKey cannot be empty, the implementation is faulty.",
        derived |-> FALSE]
  ELSE [path |-> Join(TempDir, "stars_" \o HexString(SubSeq(cacheKey, 1, 6)) \o ".json"),
        err |-> Nil, derived |-> TRUE]

\* strings.Replace(result, "][", ",", -1)
RECURSIVE ReplaceAll(_)
ReplaceAll(s) ==
  IF Len(s) < 2 THEN s
  ELSE IF s[1] = 93 /\ s[2] = 91 THEN <<44>> \o ReplaceAll(SubSeq(s, 3, Len(s)))
  ELSE <<s[1]>> \o ReplaceAll(Tail(s))

\* ---------------------------------------------------------------------------
\* cmd/root.go: Search and Render
\* ---------------------------------------------------------------------------
\* const MAX_FUZZY_DISTANCE
MAX_FUZZY_DISTANCE == 2

\* unicode.IsSpace on the bytes used here: tab, newline, vertical tab, form
\* feed, carriage return, space
IsSpace(c) == c \in {9, 10, 11, 12, 13, 32}

\* the separators of repository names: '-' and '_'
IsNameSeparator(c) == c = 45 \/ c = 95

\* strings.FieldsFunc(s, f) for the two separator classes sep = "space" and
\* sep = "name": the maximal runs of bytes that are not separators; cur is the
\* run being read
RECURSIVE SplitRuns(_, _, _)
SplitRuns(s, sep, cur) ==
  IF s = <<>> THEN (IF cur = <<>> THEN <<>> ELSE <<cur>>)
  ELSE IF (sep = "space" /\ IsSpace(s[1])) \/ (sep = "name" /\ IsNameSeparator(s[1]))
  THEN (IF cur = <<>> THEN <<>> ELSE <<cur>>) \o SplitRuns(Tail(s), sep, <<>>)
  ELSE SplitRuns(Tail(s), sep, Append(cur, s[1]))

\* a split that gives one empty word for a string without words, as
\* strings.Split(s, " ") does for the empty string
FieldsOrEmptyWord(s) ==
  IF SplitRuns(s, "space", <<>>) = <<>> THEN <<(<<>>)>> ELSE SplitRuns(s, "space", <<>>)

\* strings.Fields(s)
Fields(s) == SplitRuns(s, "space", <<>>)

\* strings.FieldsFunc(s, func(r rune) bool { return r == '-' || r == '_' })
FieldsFunc(s) == SplitRuns(s, "name", <<>>)

Min2(a, b) == IF a < b THEN a ELSE b

\* one pass of the inner loop of fuzzy.LevenshteinDistance: the column after
\* the character c of t, from the column before it; y is the row being
\* written, lastDiag the old value of the row above
RECURSIVE LevColumn(_, _, _, _, _)
LevColumn(r1, c, column, y, lastDiag) ==
  IF y > Len(r1) \/ Len(column) # Len(r1) + 1 THEN column
  ELSE LevColumn(r1, c,
         [column EXCEPT ![y + 1] =
            Min2(Min2(column[y + 1] + 1, column[y] + 1),
                 lastDiag + (IF r1[y] # c THEN 1 ELSE 0))],
         y + 1, column[y + 1])

\* the outer loop over the characters of t, x of them done
RECURSIVE LevColumns(_, _, _, _)
LevColumns(r1, r2, column, x) ==
  IF x >= Len(r2) \/ Len(column) # Len(r1) + 1 THEN column
  ELSE LevColumns(r1, r2,
         LevColumn(r1, r2[x + 1], [column EXCEPT ![1] = x + 1], 1, x), x + 1)

\* fuzzy.LevenshteinDistance(s, t)
LevenshteinDistance(s, t) ==
  LevColumns(s, t, [y \in 1..(Len(s) + 1) |-> y - 1], 0)[Len(s) + 1]

\* ---------------------------------------------------------------------------
\* encoding/json: the syntax of a JSON text
\* ---------------------------------------------------------------------------
\* A JSON value is [t, s, e]: t its kind ("string", "number", "true", "false",
\* "null", "array", "object", and "member" for a key with its value), s the
\* bytes of a string, number or key, e the elements, members or member value.
JValue(t, s, e) == [t |-> t, s |-> s, e |-> e]

\* the result of reading a value: ok, the value, and the index after it
JRead(v, i) == [ok |-> TRUE, v |-> v, i |-> i]
JFail == [ok |-> FALSE, v |-> JValue("null", <<>>, <<>>), i |-> 0]

\* the byte at index i, -1 past the end
At(s, i) == IF i >= 1 /\ i <= Len(s) THEN s[i] ELSE -1

IsDigit(c) == c >= 48 /\ c <= 57

\* the index of the first byte at or after i that is not JSON white space
RECURSIVE SkipWs(_, _)
SkipWs(s, i) == IF At(s, i) \in {32, 9, 13, 10} THEN SkipWs(s, i + 1) ELSE i

\* the index after the digits that start at i
RECURSIVE SkipDigits(_, _)
SkipDigits(s, i) == IF IsDigit(At(s, i)) THEN SkipDigits(s, i + 1) ELSE i

\* the byte an escape \c stands for, -1 when c starts no simple escape
Unescape(c) ==
  IF c \in {34, 92, 47} THEN c
  ELSE IF c = 98 THEN 8 ELSE IF c = 102 THEN 12 ELSE IF c = 110 THEN 10
  ELSE IF c = 114 THEN 13 ELSE IF c = 116 THEN 9 ELSE -1

\* the value of a hexadecimal digit, -1 for any other byte
HexDigit(c) ==
  IF IsDigit(c) THEN c - 48
  ELSE IF c >= 97 /\ c <= 102 THEN c - 87
  ELSE IF c >= 65 /\ c <= 70 THEN c - 55
  ELSE -1

\* the code unit of \uXXXX whose four digits start at index i, -1 if they are
\* not four hexadecimal digits
HexUnit(s, i) ==
  IF \E k \in 0..3 : HexDigit(At(s, i + k)) = -1 THEN -1
  ELSE HexDigit(s[i]) * 4096 + HexDigit(s[i + 1]) * 256 + HexDigit(s[i + 2]) * 16
       + HexDigit(s[i + 3])

\* the UTF-8 bytes of a code unit of the basic plane; a surrogate is replaced
\* by U+FFFD (surrogate pairs are not among the texts of this model)
Utf8(u) ==
  IF u < 128 THEN <<u>>
  ELSE IF u < 2048 THEN <<192 + (u \div 64), 128 + (u % 64)>>
  ELSE IF u >= 55296 /\ u <= 57343 THEN <<239, 191, 189>>
  ELSE <<224 + (u \div 4096), 128 + ((u \div 64) % 64), 128 + (u % 64)>>

\* a string whose opening quote is before index i; acc is what was read
RECURSIVE ScanString(_, _, _)
ScanString(s, i, acc) ==
  IF At(s, i) = 34 THEN JRead(JValue("string", acc, <<>>), i + 1)
  ELSE IF At(s, i) < 32 THEN JFail
  ELSE IF At(s, i) = 92 /\ At(s, i + 1) = 117
  THEN (IF HexUnit(s, i + 2) = -1 THEN JFail
        ELSE ScanString(s, i + 6, acc \o Utf8(HexUnit(s, i + 2))))
  ELSE IF At(s, i) = 92
  THEN (IF Unescape(At(s, i + 1)) = -1 THEN JFail
        ELSE ScanString(s, i + 2, Append(acc, Unescape(At(s, i + 1)))))
  ELSE ScanString(s, i + 1, Append(acc, s[i]))

\* the exponent of a number, from index i on; start is where the number began
ScanExponent(s, start, i) ==
  IF At(s, i) \in {101, 69}
  THEN (IF IsDigit(At(s, IF At(s, i + 1) \in {43, 45} THEN i + 2 ELSE i + 1))
        THEN JRead(JValue("number",
                          SubSeq(s, start, SkipDigits(s, i + 1 + (IF At(s, i + 1) \in {43, 45} THEN 1 ELSE 0)) - 1),
                          <<>>),
                   SkipDigits(s, i + 1 + (IF At(s, i + 1) \in {43, 45} THEN 1 ELSE 0)))
        ELSE JFail)
  ELSE JRead(JValue("number", SubSeq(s, start, i - 1), <<>>), i)

\* the fraction of a number, from index i on
ScanFraction(s, start, i) ==
  IF At(s, i) = 46
  THEN (IF IsDigit(At(s, i + 1)) THEN ScanExponent(s, start, SkipDigits(s, i + 1)) ELSE JFail)
  ELSE ScanExponent(s, start, i)

\* the integer part of a number, from index i on (after the sign)
ScanInteger(s, start, i) ==
  IF At(s, i) = 48 THEN ScanFraction(s, start, i + 1)
  ELSE IF IsDigit(At(s, i)) THEN ScanFraction(s, start, SkipDigits(s, i))
  ELSE JFail

\* a number that starts at index i
ScanNumber(s, i) == ScanInteger(s, i, IF At(s, i) = 45 THEN i + 1 ELSE i)

\* one of the literals true, false, null at index i
ScanLiteral(s, i, word, name) ==
  IF i + Len(word) - 1 <= Len(s) /\ SubSeq(s, i, i + Len(word) - 1) = word
  THEN JRead(JValue(name, <<>>, <<>>), i + Len(word))
  ELSE JFail

RECURSIVE ScanValue(_, _)
RECURSIVE ScanElements(_, _, _)
RECURSIVE ScanMembers(_, _, _)

\* after the value r of an array: a comma and more, or the closing bracket
ElementRead(s, r, acc) ==
  IF ~r.ok THEN JFail
  ELSE IF At(s, SkipWs(s, r.i)) = 44
  THEN ScanElements(s, SkipWs(s, SkipWs(s, r.i) + 1), Append(acc, r.v))
  ELSE IF At(s, SkipWs(s, r.i)) = 93
  THEN JRead(JValue("array", <<>>, Append(acc, r.v)), SkipWs(s, r.i) + 1)
  ELSE JFail

\* the elements of an array from index i on
ScanElements(s, i, acc) == ElementRead(s, ScanValue(s, i), acc)

\* after the value r of the member with key k
MemberRead(s, k, r, acc) ==
  IF ~r.ok THEN JFail
  ELSE IF At(s, SkipWs(s, r.i)) = 44
  THEN ScanMembers(s, SkipWs(s, SkipWs(s, r.i) + 1), Append(acc, JValue("member", k.v.s, <<r.v>>)))
  ELSE IF At(s, SkipWs(s, r.i)) = 125
  THEN JRead(JValue("object", <<>>, Append(acc, JValue("member", k.v.s, <<r.v>>))),
             SkipWs(s, r.i) + 1)
  ELSE JFail

\* after the key k of a member: the colon and the value
KeyRead(s, k, acc) ==
  IF ~k.ok THEN JFail
  ELSE IF At(s, SkipWs(s, k.i)) = 58
  THEN MemberRead(s, k, ScanValue(s, SkipWs(s, SkipWs(s, k.i) + 1)), acc)
  ELSE JFail

\* the members of an object from index i on
ScanMembers(s, i, acc) ==
  IF At(s, i) = 34 THEN KeyRead(s, ScanString(s, i + 1, <<>>), acc) ELSE JFail

\* the value that starts at index i
ScanValue(s, i) ==
  IF At(s, i) = 34 THEN ScanString(s, i + 1, <<>>)
  ELSE IF At(s, i) = 91
  THEN (IF At(s, SkipWs(s, i + 1)) = 93
        THEN JRead(JValue("array", <<>>, <<>>), SkipWs(s, i + 1) + 1)
        ELSE ScanElements(s, SkipWs(s, i + 1), <<>>))
  ELSE IF At(s, i) = 123
  THEN (IF At(s, SkipWs(s, i + 1)) = 125
        THEN JRead(JValue("object", <<>>, <<>>), SkipWs(s, i + 1) + 1)
        ELSE ScanMembers(s, SkipWs(s, i + 1), <<>>))
  ELSE IF At(s, i) = 116 THEN ScanLiteral(s, i, <<116, 114, 117, 101>>, "true")
  ELSE IF At(s, i) = 102 THEN ScanLiteral(s, i, <<102, 97, 108, 115, 101>>, "false")
  ELSE IF At(s, i) = 110 THEN ScanLiteral(s, i, <<110, 117, 108, 108>>, "null")
  ELSE IF At(s, i) = 45 \/ IsDigit(At(s, i)) THEN ScanNumber(s, i)
  ELSE JFail

\* the text is one value with nothing but white space around it
WholeText(s, r) == IF r.ok /\ SkipWs(s, r.i) = Len(s) + 1 THEN r ELSE JFail

\* checkValid and the scan of json.Unmarshal: the value of the text, or failure
\* (a *json.SyntaxError)
ScanText(s) == WholeText(s, ScanValue(s, SkipWs(s, 1)))

\* ---------------------------------------------------------------------------
\* encoding/json: json.Unmarshal(data, &repos) for repos []Repo
\* ---------------------------------------------------------------------------
\* type Repo, with the fields Search reads
ZeroRepo == [Name |-> <<>>, Description |-> <<>>, Topics |-> <<>>]

\* a key with its ASCII letters in lower case (field names match without
\* regard to case)
Lower(k) == [i \in 1..Len(k) |-> IF k[i] >= 65 /\ k[i] <= 90 THEN k[i] + 32 ELSE k[i]]

\* the Go type of the field of Repo a key names, "none" for an unknown key
FieldKind(k) ==
  IF Lower(k) \in {<<110, 97, 109, 101>>, <<102, 117, 108, 108, 95, 110, 97, 109, 101>>, <<104, 116, 109, 108, 95, 117, 114, 108>>, <<100, 101, 115, 99, 114, 105, 112, 116, 105, 111, 110>>} THEN "string"
  ELSE IF Lower(k) \in {<<112, 114, 105, 118, 97, 116, 101>>, <<102, 111, 114, 107>>} THEN "bool"
  ELSE IF Lower(k) = <<115, 116, 97, 114, 103, 97, 122, 101, 114, 115, 95, 99, 111, 117, 110, 116>> THEN "int"
  ELSE IF Lower(k) = <<116, 111, 112, 105, 99, 115>> THEN "strings"
  ELSE IF Lower(k) = <<111, 119, 110, 101, 114>> THEN "owner"
  ELSE "none"

\* the number fits an int: digits with an optional sign
IsInt(n) == \A i \in 1..Len(n) : IsDigit(n[i]) \/ (i = 1 /\ n[i] = 45)

\* the JSON value v can be stored in a Go value of the kind
Storable(kind, v) ==
  IF v.t = "null" \/ kind = "none" THEN TRUE
  ELSE IF kind = "string" THEN v.t = "string"
  ELSE IF kind = "bool" THEN v.t \in {"true", "false"}
  ELSE IF kind = "int" THEN v.t = "number" /\ IsInt(v.s)
  ELSE IF kind = "strings"
  THEN v.t = "array" /\ \A i \in 1..Len(v.e) : v.e[i].t \in {"string", "null"}
  ELSE v.t = "object"
       /\ \A i \in 1..Len(v.e) :
            (Lower(v.e[i].s) \in {<<108, 111, 103, 105, 110>>, <<117, 114, 108>>}) => (v.e[i].e[1].t \in {"string", "null"})

\* the strings of a JSON array stored in a []string: an element that is no
\* string leaves the zero value
StringsOf(v) == [i \in 1..Len(v.e) |-> IF v.e[i].t = "string" THEN v.e[i].s ELSE <<>>]

\* the member with key k and value v stored in repo
StoreMember(repo, k, v) ==
  IF Lower(k) = <<110, 97, 109, 101>> /\ v.t = "string" THEN [repo EXCEPT !.Name = v.s]
  ELSE IF Lower(k) = <<100, 101, 115, 99, 114, 105, 112, 116, 105, 111, 110>> /\ v.t = "string" THEN [repo EXCEPT !.Description = v.s]
  ELSE IF Lower(k) = <<116, 111, 112, 105, 99, 115>> /\ v.t = "array" THEN [repo EXCEPT !.Topics = StringsOf(v)]
  ELSE IF Lower(k) = <<116, 111, 112, 105, 99, 115>> /\ v.t = "null" THEN [repo EXCEPT !.Topics = <<>>]
  ELSE repo

\* the members of an object stored in a Repo one after the other, a later
\* member overwriting an earlier one
RECURSIVE StoreMembers(_, _)
StoreMembers(repo, ms) ==
  IF ms = <<>> THEN repo
  ELSE StoreMembers(StoreMember(repo, ms[1].s, ms[1].e[1]), Tail(ms))

\* one element of the array stored in a Repo: [repo, ok]
DecodeRepo(v) ==
  IF v.t = "object"
  THEN [repo |-> StoreMembers(ZeroRepo, v.e),
        ok |-> \A i \in 1..Len(v.e) : Storable(FieldKind(v.e[i].s), v.e[i].e[1])]
  ELSE [repo |-> ZeroRepo, ok |-> v.t = "null"]

\* the scanned text r stored in a []Repo
DecodeRepos(r) ==
  IF ~r.ok THEN [repos |-> <<>>, err |-> "*json.SyntaxError"]
  ELSE IF r.v.t = "null" THEN [repos |-> <<>>, err |-> Nil]
  ELSE IF r.v.t # "array" THEN [repos |-> <<>>, err |-> "*json.UnmarshalTypeError"]
  ELSE [repos |-> [i \in 1..Len(r.v.e) |-> DecodeRepo(r.v.e[i]).repo],
        err |-> IF \A i \in 1..Len(r.v.e) : DecodeRepo(r.v.e[i]).ok
                THEN Nil ELSE "*json.UnmarshalTypeError"]

\* json.Unmarshal(data, &repos): [repos, err], err naming the type of the error
Unmarshal(data) == DecodeRepos(ScanText(data))

\* ---------------------------------------------------------------------------
\* lib/pq and container/heap: the priority queue
\* ---------------------------------------------------------------------------
\* A queue is the slice of its items, index 0 first.  An item is
\* [Value, Priority, at]: at records where Search made it (the number of the
\* push, the tier, the repository, the needle, the word or topic, the distance)
\* and is read by no operation of the queue.
\* pq.Less(i, j): the item with the greater priority comes first.  The callers
\* give an item its Value and its Priority and nothing else, so Less compares
\* the priorities, as TestRender expects of it; the order of two items of
\* equal priority is left to the shape of the heap
Less(pq, i, j) == pq[i + 1].Priority > pq[j + 1].Priority

\* pq.Swap(i, j)
Swap(pq, i, j) == [pq EXCEPT ![i + 1] = pq[j + 1], ![j + 1] = pq[i + 1]]

\* heap.up(h, j)
RECURSIVE up(_, _)
up(h, j) ==
  IF j = 0 \/ ~Less(h, j, (j - 1) \div 2) THEN h
  ELSE up(Swap(h, (j - 1) \div 2, j), (j - 1) \div 2)

\* the child of i that heap.down compares with i, among the first n items
DownChild(h, i, n) ==
  IF 2 * i + 2 < n /\ Less(h, 2 * i + 2, 2 * i + 1) THEN 2 * i + 2 ELSE 2 * i + 1

\* heap.down(h, i0, n)
RECURSIVE down(_, _, _)
down(h, i, n) ==
  IF 2 * i + 1 >= n THEN h
  ELSE IF ~Less(h, DownChild(h, i, n), i) THEN h
  ELSE down(Swap(h, i, DownChild(h, i, n)), DownChild(h, i, n), n)

\* heap.Push(&h, x): pq.Push appends x, then up
HeapPush(h, x) == up(Append(h, x), Len(h))

\* a Pop that takes the last item of the slice as it stands, without the swap
\* and the down of heap.Pop
HeapPopLast(h) == [item |-> h[Len(h)], h |-> SubSeq(h, 1, Len(h) - 1)]

\* heap.Pop(&h) on a queue that is not empty: [item, h]; the first and the last
\* item are swapped, down restores the heap among the others, pq.Pop takes the
\* last
HeapPop(h) ==
  [item |-> h[1],
   h |-> SubSeq(down(Swap(h, 0, Len(h) - 1), 0, Len(h) - 1), 1, Len(h) - 1)]

\* ---------------------------------------------------------------------------
\* cmd/root.go: Search
\* ---------------------------------------------------------------------------
\* a name tier that is given a weight below the one of the descriptions
NamePriorityBelow(rank) == ((rank \div (rank + 1)) + 2) * 100

\* a name score whose distance term is scaled before the division, so that it
\* is not truncated to 0
NamePriorityScaled(rank) == ((100 * rank) \div (rank + 1)) + 1000

\* Priority of a match of the repository name at distance rank
NamePriority(rank) == ((rank \div (rank + 1)) + 10) * 100

\* Priority of a match of a word of the description
DescriptionPriority(rank) == ((rank \div (rank + 1)) + 5) * 50

\* Priority of a match of a topic
TopicPriority(rank) == ((rank \div (rank + 1)) + 1) * 25

\* rank >= 0 && rank <= MAX_FUZZY_DISTANCE for rank = LevenshteinDistance(needle, word)
Matches(needle, word) ==
  LevenshteinDistance(needle, word) >= 0
  /\ LevenshteinDistance(needle, word) <= MAX_FUZZY_DISTANCE

\* &pq.Item{Value: repo, Priority: priority}, made by push number seq
Item(repo, priority, seq, tier, ri, ni, wi, rank) ==
  [Value |-> repo, Priority |-> priority,
   at |-> [seq |-> seq, tier |-> tier, repo |-> ri, needle |-> ni, word |-> wi,
           rank |-> rank]]

\* the loop over the words of the name: the index of the first word from w on
\* that matches the needle, 0 if there is none
RECURSIVE FirstMatch(_, _, _)
FirstMatch(needle, words, w) ==
  IF w > Len(words) THEN 0
  ELSE IF Matches(needle, words[w]) THEN w
  ELSE FirstMatch(needle, words, w + 1)

\* a description loop that stops at the first word that matches
PushDescriptionOnce(found, repo, ri, needle, ni, words, w) ==
  IF FirstMatch(needle, words, w) = 0 THEN found
  ELSE HeapPush(found,
                Item(repo,
                     DescriptionPriority(LevenshteinDistance(needle, words[FirstMatch(needle, words, w)])),
                     Len(found) + 1, "description", ri, ni, FirstMatch(needle, words, w),
                     LevenshteinDistance(needle, words[FirstMatch(needle, words, w)])))

\* the loop over the words of the description from w on: every word that
\* matches is pushed
RECURSIVE PushDescription(_, _, _, _, _, _, _)
PushDescription(found, repo, ri, needle, ni, words, w) ==
  IF w > Len(words) THEN found
  ELSE PushDescription(
         IF Matches(needle, words[w])
         THEN HeapPush(found, Item(repo, DescriptionPriority(LevenshteinDistance(needle, words[w])),
                                   Len(found) + 1, "description", ri, ni, w,
                                   LevenshteinDistance(needle, words[w])))
         ELSE found,
         repo, ri, needle, ni, words, w + 1)

\* the loop over the topics from w on
RECURSIVE PushTopics(_, _, _, _, _, _)
PushTopics(found, repo, ri, needle, ni, w) ==
  IF w > Len(repo.Topics) THEN found
  ELSE PushTopics(
         IF Matches(needle, repo.Topics[w])
         THEN HeapPush(found, Item(repo, TopicPriority(LevenshteinDistance(needle, repo.Topics[w])),
                                   Len(found) + 1, "topic", ri, ni, w,
                                   LevenshteinDistance(needle, repo.Topics[w])))
         ELSE found,
         repo, ri, needle, ni, w + 1)

\* a loop body without the continue after a match of the name
SearchPairNoContinue(found, repo, ri, needle, ni, w) ==
  PushTopics(
    PushDescription(
      IF w > 0
      THEN HeapPush(found, Item(repo, NamePriority(LevenshteinDistance(needle, FieldsFunc(repo.Name)[w])),
                                Len(found) + 1, "name", ri, ni, w,
                                LevenshteinDistance(needle, FieldsFunc(repo.Name)[w])))
      ELSE found,
      repo, ri, needle, ni, Fields(repo.Description), 1),
    repo, ri, needle, ni, 1)

\* a loop body that reaches the topics only when no word of the description
\* matched
SearchPairTopicsLast(found, repo, ri, needle, ni, w) ==
  IF w > 0
  THEN HeapPush(found, Item(repo, NamePriority(LevenshteinDistance(needle, FieldsFunc(repo.Name)[w])),
                            Len(found) + 1, "name", ri, ni, w,
                            LevenshteinDistance(needle, FieldsFunc(repo.Name)[w])))
  ELSE IF \E d \in 1..Len(Fields(repo.Description)) : Matches(needle, Fields(repo.Description)[d])
  THEN PushDescription(found, repo, ri, needle, ni, Fields(repo.Description), 1)
  ELSE PushTopics(found, repo, ri, needle, ni, 1)

\* the body of the loop for one repository and one needle; w is the first
\* word of the name that matches (0: none)
SearchPair(found, repo, ri, needle, ni, w) ==
  IF w > 0
  THEN HeapPush(found, Item(repo, NamePriority(LevenshteinDistance(needle, FieldsFunc(repo.Name)[w])),
                            Len(found) + 1, "name", ri, ni, w,
                            LevenshteinDistance(needle, FieldsFunc(repo.Name)[w])))
  ELSE PushTopics(PushDescription(found, repo, ri, needle, ni, Fields(repo.Description), 1),
                  repo, ri, needle, ni, 1)

\* the loop over the needles from ni on, for one repository
RECURSIVE SearchNeedles(_, _, _, _, _)
SearchNeedles(found, repo, ri, needles, ni) ==
  IF ni > Len(needles) THEN found
  ELSE SearchNeedles(
         SearchPair(found, repo, ri, needles[ni], ni,
                    FirstMatch(needles[ni], FieldsFunc(repo.Name), 1)),
         repo, ri, needles, ni + 1)

\* the loop over the repositories from ri on
RECURSIVE SearchRepos(_, _, _, _)
SearchRepos(found, repos, ri, needles) ==
  IF ri > Len(repos) THEN found
  ELSE SearchRepos(SearchNeedles(found, repos[ri], ri, needles, 1), repos, ri + 1, needles)

\* a Search that goes on with the records decoded before the error
SearchedPartial(u, find) ==
  [found |-> SearchRepos(<<>>, u.repos, 1, Fields(find)), err |-> u.err]

\* Search after json.Unmarshal gave u
Searched(u, find) ==
  IF u.err # Nil THEN [found |-> <<>>, err |-> u.err]
  ELSE [found |-> SearchRepos(<<>>, u.repos, 1, Fields(find)), err |-> Nil]

\* Search(starredRepos, find): [found, err]
Search(starredRepos, find) == Searched(Unmarshal(starredRepos), find)

\* a limit that is not capped by the length of the queue
RenderLimitUncapped(resultsCount, limit) ==
  IF limit <= -1 THEN resultsCount ELSE limit

\* ---------------------------------------------------------------------------
\* cmd/root.go: Render
\* ---------------------------------------------------------------------------
\* RenderLimit(resultsCount, limit)
RenderLimit(resultsCount, limit) ==
  IF limit <= -1 THEN resultsCount ELSE Min2(limit, resultsCount)

\* ---------------------------------------------------------------------------
\* State machine
\* ---------------------------------------------------------------------------
NoFiles == [p \in {} |-> <<>>]

\* the path given with --cache-file in the tests ("" when the flag is absent)
OverridePath == "/tmp/test_pull_cache.json"
CacheFiles == {"", OverridePath}

\* the key of TestGetCachePath and one that differs from it after byte 6
TestKey == HeaderDigest(TestLink)
TestKeyTail == [TestKey EXCEPT ![7] = (@ + 1) % 256]

\* the observation of a call: its inputs, what it read and what it gave back
NoCall ==
  [op |-> "none", user |-> "", cacheFile |-> "", key |-> ZeroKey,
   resp |-> Response(Nil, 0, <<>>, "", "", "", ""),
   keyErr |-> Nil, path |-> "", sized |-> FALSE, size |-> -1,
   exec |-> 0, stdout |-> <<>>, data |-> <<>>, err |-> Nil,
   pre |-> NoFiles, preStored |-> NoFiles, set |-> {}]

\* what is kept of the call before the last one
Summary(o) ==
  [op |-> o.op, user |-> o.user, cacheFile |-> o.cacheFile, key |-> o.key,
   status |-> o.resp.status, link |-> o.resp.link, body |-> o.resp.body,
   path |-> o.path, err |-> o.err]

\* no call of Search yet, and no call of Render
NoSearch == [op |-> "none", data |-> <<>>, find |-> <<>>, pushes |-> 0, found |-> <<>>, err |-> Nil]
NoRender ==
  [pc |-> "idle", limit |-> 0, n |-> 0, renderLimit |-> 0, i |-> 0, queue |-> <<>>,
   popped |-> <<>>]

\* the invocations of the command that can run side by side
Procs == {1, 2}

\* an invocation that has not started: the caller (op) and its ghClient, its
\* flags, the locals of rootCmd.Run and GetStarredRepos, the file it holds open
\* (fd: the path of the file, or the tag of a file that has no name any more,
\* "" when it holds none), the stages it has entered, what it rendered, the
\* invocations that were over when it started; and what the properties need
\* of its history: the stars GitHub answered the probe for (probed) and
\* listed (listed), whether a file existed at its path when GetCachePath
\* looked (existed), the stores untouched at that moment (preStored), and
\* whether nobody else has created, written or removed its file since (quiet)
NoRun ==
  [pc |-> "idle", op |-> "", client |-> "", user |-> "", cf |-> "", find |-> <<>>,
   limit |-> 0, status |-> 0, key |-> ZeroKey, path |-> "", fd |-> "", size |-> -1,
   stdout |-> <<>>, payload |-> <<>>, data |-> <<>>, err |-> Nil, trace |-> <<>>,
   found |-> <<>>, rendered |-> <<>>, after |-> {},
   probed |-> {}, listed |-> {}, existed |-> FALSE, preStored |-> NoFiles,
   quiet |-> FALSE]

\* the test is not preparing a file
NoWriter == [pc |-> "idle", path |-> "", fd |-> ""]

Init ==
  /\ srch = NoSearch
  /\ rend = NoRender
  /\ runs = [p \in Procs |-> NoRun]
  /\ stars = [a \in Accounts |-> {}]
  /\ files = NoFiles
  /\ unnamed = NoFiles
  /\ writer = NoWriter
  /\ stored = NoFiles
  /\ last = NoCall
  /\ prev = Summary(NoCall)
  /\ calls = 0

Without(f, p) == [q \in DOMAIN f \ {p} |-> f[q]]

\* the steps of GetStarredRepos between the first look of GetCachePath at the
\* file system and the return
InFlight == {"create", "size", "stat", "read", "copy", "exec", "open", "write"}

\* the file at path is created or written by someone other than invocation
\* self: the invocations that are inside GetStarredRepos on that path are no
\* longer alone with their file
Disturbed(rs, path, self) ==
  [q \in Procs |->
     IF q # self /\ rs[q].path = path /\ rs[q].pc \in InFlight
     THEN [rs[q] EXCEPT !.quiet = FALSE]
     ELSE rs[q]]

\* the tags of the files that have no name any more
Tags == <<"(deleted) 1", "(deleted) 2", "(deleted) 3">>

\* the first tag that no file of un bears
FreeTag(un) ==
  Tags[CHOOSE i \in 1..Len(Tags) :
         /\ Tags[i] \notin DOMAIN un
         /\ \A j \in 1..(i - 1) : Tags[j] \in DOMAIN un]

\* the content of the file a descriptor fd refers to: the file of that name, or
\* the removed file of that tag
Inode(fd) == IF fd \in DOMAIN unnamed THEN unnamed[fd] ELSE files[fd]

\* the file at path is removed: the invocations that hold it open keep a
\* descriptor of a file that has no name any more, tagged t
Unlinked(rs, path, t) ==
  [q \in Procs |->
     IF rs[q].path = path /\ rs[q].pc \in InFlight
     THEN [rs[q] EXCEPT !.quiet = FALSE, !.fd = IF @ = path THEN t ELSE @]
     ELSE rs[q]]

\* the files of un that somebody still holds open, the others are gone
Released(rs, w, un) ==
  [t \in {t \in DOMAIN un : w.fd = t \/ \E q \in Procs : rs[q].fd = t} |-> un[t]]

\* the user stars repository r with account a
Star(a, r) ==
  /\ r \notin stars[a]
  /\ stars' = [stars EXCEPT ![a] = @ \cup {r}]
  /\ last' = NoCall
  /\ UNCHANGED <<files, unnamed, writer, stored, prev, calls, srch, rend, runs>>

\* the user removes the star of repository r
Unstar(a, r) ==
  /\ r \in stars[a]
  /\ stars' = [stars EXCEPT ![a] = @ \ {r}]
  /\ last' = NoCall
  /\ UNCHANGED <<files, unnamed, writer, stored, prev, calls, srch, rend, runs>>

\* file.Write(data) on a file opened with O_APPEND: the bytes go to the end of
\* the file
WriteAppend(content, data) == content \o data

\* a Write that leaves out a payload that does not begin like a JSON array
WriteAtArrays(content, data) ==
  IF data # <<>> /\ data[1] = 91
  THEN data \o SubSeq(content, Len(data) + 1, Len(content))
  ELSE content

\* file.Write(data) on a file just opened, hence at offset 0, of a file that
\* holds content: the bytes beyond the ones written stay
WriteAt(content, data) == data \o SubSeq(content, Len(data) + 1, Len(content))

\* the cache file is prepared by hand, as FetchStarredReposFromCache does:
\* os.OpenFile(cacheFile, os.O_RDWR|os.O_CREATE|os.O_TRUNC, 0644) creates the
\* file or empties it
TestOpenFile(path) ==
  /\ writer.pc = "idle"
  /\ files' = CreateFile(files, path)
  /\ stored' = Without(stored, path)
  /\ runs' = Disturbed(runs, path, 0)
  /\ writer' = [pc |-> "copy", path |-> path, fd |-> path]
  /\ last' = NoCall
  /\ UNCHANGED <<stars, unnamed, prev, calls, srch, rend>>

\* io.Copy(file, bytes.NewBuffer(want)): one Write of c, at offset 0, to the
\* file that was opened, which has no name any more when it was removed since.
\* The file stays open: its Close is deferred to the return of the subtest
TestCopy(c) ==
  /\ writer.pc = "copy"
  /\ writer' = [writer EXCEPT !.pc = "close"]
  /\ IF writer.fd \in DOMAIN unnamed
     THEN /\ unnamed' = [unnamed EXCEPT ![writer.fd] = WriteAt(@, c)]
          /\ UNCHANGED <<files, stored, runs>>
     ELSE /\ files' = [files EXCEPT ![writer.fd] = WriteAt(@, c)]
          /\ stored' = Without(stored, writer.fd)
          /\ runs' = Disturbed(runs, writer.fd, 0)
          /\ UNCHANGED unnamed
  /\ last' = NoCall
  /\ UNCHANGED <<stars, prev, calls, srch, rend>>

\* the deferred file.Close() of FetchStarredReposFromCache, which runs when the
\* subtest returns, after its call of GetStarredRepos and its os.Remove: the
\* file it held is gone when it has no name any more and nobody else holds it
TestClose ==
  /\ writer.pc = "close"
  /\ writer' = NoWriter
  /\ unnamed' = Released(runs, NoWriter, unnamed)
  /\ last' = NoCall
  /\ UNCHANGED <<stars, files, stored, prev, calls, srch, rend, runs>>

\* os.Remove(path), as the tests do when they clean up
RemoveFile(path) ==
  /\ path \in DOMAIN files
  /\ files' = Without(files, path)
  /\ stored' = Without(stored, path)
  /\ IF writer.fd = path \/ \E q \in Procs : runs[q].fd = path
     THEN /\ runs' = Unlinked(runs, path, FreeTag(unnamed))
          /\ writer' = IF writer.fd = path
                       THEN [writer EXCEPT !.fd = FreeTag(unnamed)] ELSE writer
          /\ unnamed' = [t \in DOMAIN unnamed \cup {FreeTag(unnamed)} |->
                           IF t = FreeTag(unnamed) THEN files[path] ELSE unnamed[t]]
     ELSE /\ runs' = Unlinked(runs, path, "")
          /\ UNCHANGED <<writer, unnamed>>
  /\ last' = NoCall
  /\ UNCHANGED <<stars, prev, calls, srch, rend>>

\* ---------------------------------------------------------------------------
\* GenerateCacheKey called on its own with a test client, as
\* TestGenerateCacheKey does
\* ---------------------------------------------------------------------------
\* the answers of the test client: every status with the headers that matter
\* for it, and a transport failure
KeyResponses ==
       { Response(Nil, 200, l, r[1], r[2], r[3], b) :
           l \in {<<>>, LinkHeader(12345, 2), TestLink},
           r \in {<<"5000", "0", "1630000000">>, <<"", "", "">>},
           b \in {"OK", "[]"} }
  \cup { Response(Nil, 403, l, r[1], r[2], r[3], "OK") :
           l \in {<<>>, TestLink},
           r \in {<<"5000", "0", "1630000000">>, <<"", "", "">>} }
  \cup { Response(Nil, st, l, "", "", "", "OK") :
           st \in {204, 404, 500}, l \in {<<>>, TestLink} }
  \cup { Response("dial tcp: connection refused", 0, <<>>, "", "", "", "") }

\* the call gave k
KeyGenerated(user, resp, k) ==
  last' = [NoCall EXCEPT !.op = "GenerateCacheKey", !.user = user, !.resp = resp,
             !.key = k.key, !.keyErr = k.err, !.err = k.err]

CallGenerateCacheKey(user, resp) ==
  /\ KeyGenerated(user, resp, GenerateCacheKey(user, resp))
  /\ prev' = Summary(last)
  /\ UNCHANGED <<stars, files, stored, calls, srch, rend, runs, unnamed, writer>>

InitKey == Init

NextKey ==
  \E u \in Users \cup {""}, resp \in KeyResponses : CallGenerateCacheKey(u, resp)

SpecKey == InitKey /\ [][NextKey]_vars

\* ---------------------------------------------------------------------------
\* Search and Render called on their own, as TestSearch and TestRender do
\* ---------------------------------------------------------------------------
\* the longest dataset, in repositories, and the most items TestRender pushes
MaxDataset == 2
MaxPush == 5

\* the words of the sample data: abd and abb are at distance 1 from abc, add
\* at distance 2 and ddd at distance 3; abb is at distance 3 from ddd; zzzzzz
\* is far from every needle
Wabc == <<97, 98, 99>>
Wabb == <<97, 98, 98>>
Wabd == <<97, 98, 100>>
Wadd == <<97, 100, 100>>
Wddd == <<100, 100, 100>>
Wfar == <<122, 122, 122, 122, 122, 122>>

\* a Repo value
Repo(name, description, topics) ==
  [Name |-> name, Description |-> description, Topics |-> topics]

\* the repositories the datasets are made of: a name that matches both needles
\* in front of a description and a topic that match too; no match in the name
\* and several in the description and the topics; a match in the second word
\* of the name only; a match in a topic only; a name whose first word is
\* farther from the needle than its second
SampleRepos ==
  { Repo(Wabc \o <<45>> \o Wddd, Wabd \o <<32>> \o Wabc, <<Wabc>>),
    Repo(Wfar, Wabc \o <<32>> \o Wabb \o <<32>> \o Wfar, <<Wabd, Wabc, Wfar>>),
    Repo(Wfar \o <<95>> \o Wabd, <<>>, <<>>),
    Repo(Wfar, <<>>, <<Wadd>>),
    Repo(Wadd \o <<45>> \o Wabc, Wfar, <<>>) }

\* the datasets: every sequence of at most MaxDataset sample repositories
Datasets == UNION {[1..n -> SampleRepos] : n \in 0..MaxDataset}

\* byte strings joined with a comma
RECURSIVE JoinComma(_)
JoinComma(parts) ==
  IF parts = <<>> THEN <<>>
  ELSE IF Len(parts) = 1 THEN parts[1]
  ELSE parts[1] \o <<44>> \o JoinComma(Tail(parts))

\* a string of the sample data as a JSON string (it needs no escape)
Quote(str) == <<34>> \o str \o <<34>>

\* the record of a repository in the listing of GitHub, with the fields
\* Search reads
EncodeRepo(r) ==
  <<123, 34, 110, 97, 109, 101, 34, 58>> \o Quote(r.Name) \o <<44, 34, 100, 101, 115, 99, 114, 105, 112, 116, 105, 111, 110, 34, 58>> \o Quote(r.Description) \o <<44, 34, 116, 111, 112, 105, 99, 115, 34, 58, 91>>
  \o JoinComma([i \in 1..Len(r.Topics) |-> Quote(r.Topics[i])]) \o <<93, 125>>

\* the listing of a dataset: one JSON array
EncodeRepos(rs) ==
  <<91>> \o JoinComma([i \in 1..Len(rs) |-> EncodeRepo(rs[i])]) \o <<93>>

\* payloads that are no array of repository records: nothing, the output of
\* MockGithub, the object of FetchStarredReposFromCache, a listing cut before
\* its end, and arrays whose second element is no record or has a name that is
\* no string
BadPayloads ==
  { <<>>, MockOutput, TestCacheContent,
    <<91, 123, 34, 110, 97, 109, 101, 34, 58, 34, 97, 98, 99, 45, 100, 100, 100, 34, 44, 34, 100, 101, 115, 99, 114, 105, 112, 116, 105, 111, 110, 34, 58, 34, 97, 98, 100, 32, 97, 98, 99, 34, 44, 34, 116, 111, 112, 105, 99, 115, 34, 58, 91, 34, 97, 98, 99, 34, 93, 125, 44, 123, 34, 110, 97, 109, 101, 34, 58, 34, 122, 122, 122, 122, 122, 122, 34>>,
    <<91, 123, 34, 110, 97, 109, 101, 34, 58, 34, 97, 98, 99, 45, 100, 100, 100, 34, 125, 44, 55, 93>>,
    <<91, 123, 34, 110, 97, 109, 101, 34, 58, 34, 97, 98, 99, 45, 100, 100, 100, 34, 125, 44, 123, 34, 110, 97, 109, 101, 34, 58, 53, 125, 93>> }

\* JSON null, which json.Unmarshal stores as a nil slice without error
NullPayload == <<110, 117, 108, 108>>

Payloads == {EncodeRepos(rs) : rs \in Datasets} \cup BadPayloads \cup {NullPayload}

\* the values of --find: empty, white space only, one needle, two needles, the
\* same needle twice
Queries ==
  { <<>>, <<32, 9>>, Wabc, Wddd, Wabc \o <<32>> \o Wddd, <<32>> \o Wabc \o <<32, 32>> \o Wabc }

\* the values of --limit (10 is the default)
Limits == {-5, -2, -1, 0, 1, 2, 3, 10}

\* the queue TestRender builds with k pushes: item i has Priority 1000/(i+1)
RECURSIVE TestQueue(_)
TestQueue(k) ==
  IF k = 0 THEN <<>>
  ELSE HeapPush(TestQueue(k - 1),
                Item(Repo(<<103, 97, 116, 101, 107, 101, 101, 112, 101, 114, 45>> \o ItoaBytes(k - 1), <<>>, <<>>), 1000 \div k,
                     k, "test", k, 0, 0, 0))

InitSearch ==
  /\ stars = [a \in Accounts |-> {}]
  /\ files = NoFiles
  /\ unnamed = NoFiles
  /\ writer = NoWriter
  /\ stored = NoFiles
  /\ last = NoCall
  /\ prev = Summary(NoCall)
  /\ calls = 0
  /\ rend = NoRender
  /\ runs = [p \in Procs |-> NoRun]
  /\ \/ \E data \in Payloads, find \in Queries :
          srch = [NoSearch EXCEPT !.op = "input", !.data = data, !.find = find]
     \/ \E k \in 0..MaxPush : srch = [NoSearch EXCEPT !.op = "pushes", !.pushes = k]

\* Search returned r
SearchReturned(r) ==
  srch' = [srch EXCEPT !.op = "Search", !.found = r.found, !.err = r.err]

\* found, err := Search(starred, find)
CallSearch ==
  /\ srch.op = "input"
  /\ SearchReturned(Search(srch.data, srch.find))
  /\ UNCHANGED <<stars, files, stored, last, prev, calls, rend, runs, unnamed, writer>>

\* the loop of TestRender that fills the queue with heap.Push
BuildQueue ==
  /\ srch.op = "pushes"
  /\ srch' = [srch EXCEPT !.op = "TestRender", !.found = TestQueue(srch.pushes)]
  /\ UNCHANGED <<stars, files, stored, last, prev, calls, rend, runs, unnamed, writer>>

\* Render(results, limit, renderTarget) up to the loop: RenderTable and
\* RenderJsonOutput both compute renderLimit from results.Len() and limit
CallRender(limit) ==
  /\ srch.op \in {"Search", "TestRender"} /\ srch.err = Nil
  /\ rend.pc = "idle"
  /\ rend' = [pc |-> "popping", limit |-> limit, n |-> Len(srch.found),
              renderLimit |-> RenderLimit(Len(srch.found), limit), i |-> 0,
              queue |-> srch.found, popped |-> <<>>]
  /\ UNCHANGED <<stars, files, stored, last, prev, calls, srch, runs, unnamed, writer>>

\* heap.Pop gave p
Popped(p) ==
  rend' = [rend EXCEPT !.i = @ + 1, !.queue = p.h, !.popped = Append(@, p.item)]

\* one turn of the loop for i := 0; i < renderLimit; i++: heap.Pop(&results),
\* which panics on an empty queue
RenderPop ==
  /\ rend.pc = "popping" /\ rend.i < rend.renderLimit
  /\ IF rend.queue = <<>>
     THEN rend' = [rend EXCEPT !.pc = "panic"]
     ELSE Popped(HeapPop(rend.queue))
  /\ UNCHANGED <<stars, files, stored, last, prev, calls, srch, runs, unnamed, writer>>

\* the loop is over and the output is written
RenderDone ==
  /\ rend.pc = "popping" /\ rend.i >= rend.renderLimit
  /\ rend' = [rend EXCEPT !.pc = "done"]
  /\ UNCHANGED <<stars, files, stored, last, prev, calls, srch, runs, unnamed, writer>>

NextSearch ==
  \/ CallSearch
  \/ BuildQueue
  \/ \E limit \in Limits : CallRender(limit)
  \/ RenderPop
  \/ RenderDone

SpecSearch == InitSearch /\ [][NextSearch]_vars

\* ---------------------------------------------------------------------------
\* rootCmd.Run, GetStarredRepos and GetCachePath step by step: one step for
\* each wait and each system call
\* ---------------------------------------------------------------------------
\* the default of --limit
DefaultLimit == 10

\* the flags of the invocations: --user, --cache-file and --find (an empty
\* --find is refused)
RunUsers == {"Link-", "octocat"}
RunQueries == {<<>>, <<97>>}

\* the message of the check of the flags
FlagsRequired ==
  "The --user, -u and --find, -f flags are required. See --help for more information"

\* the renderLimit pops of the loop of RenderTable, as the items popped
RECURSIVE RenderPops(_, _)
RenderPops(h, n) ==
  IF n = 0 \/ h = <<>> THEN <<>>
  ELSE <<HeapPop(h).item>> \o RenderPops(HeapPop(h).h, n - 1)

\* invocation p is now r
Stepped(p, r) == runs' = [runs EXCEPT ![p] = r]

\* invocation p is now r and has created or written the file at its path
SteppedWriting(p, r) == runs' = Disturbed([runs EXCEPT ![p] = r], r.path, p)

\* invocation p ends with the fatal error err
Fatal(p, r, err) == Stepped(p, [r EXCEPT !.pc = "failed", !.err = err])

\* invocation p enters a stage
Entered(r, stage) == [r EXCEPT !.trace = Append(@, stage)]

\* where the caller of GetCachePath goes on: GetStarredRepos calls fileSize,
\* the test is over
PathCaller(r) == IF r.op = "GetCachePath" THEN "done" ELSE "size"

\* where the caller of GetStarredRepos goes on: rootCmd.Run calls Search, the
\* test is over
Caller(r) == IF r.op = "Run" THEN "search" ELSE "done"

\* the test that called GetCachePath notes what it got from the call, which
\* ends as r
Noted(r) ==
  IF r.op = "GetCachePath"
  THEN /\ last' = [NoCall EXCEPT !.op = "GetCachePath", !.key = r.key,
                     !.cacheFile = r.cf, !.path = r.path, !.err = r.err, !.pre = files]
       /\ prev' = Summary(last)
  ELSE UNCHANGED <<last, prev>>

\* invocation p can start: the invocations are numbered in the order in which
\* they start
Startable(p) ==
  /\ runs[p].pc = "idle"
  /\ \A q \in Procs : q < p => runs[q].pc # "idle"

\* the command is started: PreRun sets ghClient = &github{}, the flags are
\* parsed and checked
Start(p, user, cf, find) ==
  /\ Startable(p)
  /\ calls < MaxCalls
  /\ calls' = calls + 1
  /\ Stepped(p, [runs[p] EXCEPT
                   !.op = "Run", !.client = "github",
                   !.user = user, !.cf = cf, !.find = find, !.limit = DefaultLimit,
                   !.after = {q \in Procs : runs[q].pc \in {"done", "failed"}},
                   !.pc = IF user = "" \/ find = <<>> THEN "failed" ELSE "probe",
                   !.err = IF user = "" \/ find = <<>> THEN FlagsRequired ELSE Nil])
  /\ UNCHANGED <<stars, files, unnamed, writer, stored, last, prev, srch, rend>>

\* GetStarredRepos(user, key) is called as TestGetStarredRepos does, with
\* cacheFile = cf and ghClient = client
CallGetStarredRepos(p, client, user, key, cf) ==
  /\ Startable(p)
  /\ calls < MaxCalls
  /\ calls' = calls + 1
  /\ Stepped(p, [runs[p] EXCEPT
                   !.op = "GetStarredRepos", !.client = client,
                   !.user = user, !.cf = cf, !.key = key,
                   !.after = {q \in Procs : runs[q].pc \in {"done", "failed"}},
                   !.pc = "path"])
  /\ UNCHANGED <<stars, files, unnamed, writer, stored, last, prev, srch, rend>>

\* GetCachePath(key) is called as TestGetCachePath does, with cacheFile = cf
CallGetCachePath(p, key, cf) ==
  /\ Startable(p)
  /\ calls < MaxCalls
  /\ calls' = calls + 1
  /\ Stepped(p, [runs[p] EXCEPT
                   !.op = "GetCachePath", !.cf = cf, !.key = key,
                   !.after = {q \in Procs : runs[q].pc \in {"done", "failed"}},
                   !.pc = "path"])
  /\ UNCHANGED <<stars, files, unnamed, writer, stored, last, prev, srch, rend>>

\* a command that goes on to the cache when the probe was refused with 403
KeyedFallback(p, resp, k) ==
  IF k.err # Nil /\ resp.status # 403
  THEN Fatal(p, Entered([runs[p] EXCEPT !.status = resp.status], "probe"), k.err)
  ELSE Stepped(p, [Entered(runs[p], "probe") EXCEPT
                     !.status = resp.status, !.key = k.key, !.pc = "path",
                     !.probed = stars[AccountOf(runs[p].user)]])

\* GenerateCacheKey gave k for the answer resp, which GitHub made of the stars
\* of that moment
Keyed(p, resp, k) ==
  IF k.err # Nil
  THEN Fatal(p, Entered([runs[p] EXCEPT !.status = resp.status], "probe"), k.err)
  ELSE Stepped(p, [Entered(runs[p], "probe") EXCEPT
                     !.status = resp.status, !.key = k.key, !.pc = "path",
                     !.probed = stars[AccountOf(runs[p].user)]])

\* key, err := GenerateCacheKey(user)
ProbeStep(p) ==
  /\ runs[p].pc = "probe"
  /\ \E resp \in ClientDo(runs[p].user, stars) :
       Keyed(p, resp, GenerateCacheKey(runs[p].user, resp))
  /\ UNCHANGED <<stars, files, unnamed, writer, stored, last, prev, calls, srch, rend>>

\* GetCachePath has its path cp and, for a derived path, has looked for the
\* file with fileExists: without a file it goes on to create one, otherwise it
\* returns.  The invocation notes whether a file existed and which stores
\* were untouched at that moment
Resolved(p, cp) ==
  IF cp.err # Nil
  THEN [Entered(runs[p], "cache") EXCEPT !.pc = "failed", !.err = cp.err]
  ELSE [Entered(runs[p], "cache") EXCEPT
          !.path = cp.path,
          !.pc = IF cp.derived /\ ~fileExists(cp.path, files)
                 THEN "create" ELSE PathCaller(runs[p]),
          !.existed = fileExists(cp.path, files),
          !.preStored = stored, !.quiet = TRUE]

\* GetStarredRepos: path, err := GetCachePath(cacheKey), up to and with
\* fileExists(path), that is os.Stat
PathStep(p) ==
  /\ runs[p].pc = "path"
  /\ Stepped(p, Resolved(p, GetCachePath(runs[p].key, runs[p].cf)))
  /\ IF runs'[p].pc = "create" THEN UNCHANGED <<last, prev>> ELSE Noted(runs'[p])
  /\ UNCHANGED <<stars, files, unnamed, writer, stored, calls, srch, rend>>

\* GetCachePath: os.OpenFile(path, os.O_WRONLY|os.O_CREATE, 0644), which
\* creates the file when there is still none and leaves a file that is there
\* as it is, and the return of the path
CreateStep(p) ==
  /\ runs[p].pc = "create"
  /\ IF fileExists(runs[p].path, files)
     THEN /\ UNCHANGED files
          /\ Stepped(p, [runs[p] EXCEPT !.pc = PathCaller(runs[p])])
     ELSE /\ files' = CreateFile(files, runs[p].path)
          /\ SteppedWriting(p, [runs[p] EXCEPT !.pc = PathCaller(runs[p])])
  /\ Noted(runs'[p])
  /\ UNCHANGED <<stars, unnamed, writer, stored, calls, srch, rend>>

\* fileSize: file, err := os.Open(filePath)
SizeOpenStep(p) ==
  /\ runs[p].pc = "size"
  /\ IF ~fileExists(runs[p].path, files)
     THEN Fatal(p, runs[p], NotExist(runs[p].path))
     ELSE Stepped(p, [runs[p] EXCEPT !.fd = runs[p].path, !.pc = "stat"])
  /\ UNCHANGED <<stars, files, unnamed, writer, stored, last, prev, calls, srch, rend>>

\* a size check that remembers a failed fetch: it ends the invocation with the
\* earlier error instead of calling the provider again for the path
SizedNoRetry(p, size) ==
  IF size = 0 /\ \E q \in runs[p].after :
                    runs[q].pc = "failed" /\ runs[q].path = runs[p].path
  THEN Fatal(p, [runs[p] EXCEPT !.size = size, !.fd = ""], "gh: exit status 1")
  ELSE Stepped(p, [runs[p] EXCEPT !.size = size, !.fd = "",
                                  !.pc = IF size > 0 THEN "read" ELSE "exec"])

\* a size check for which a file that holds only "[]" counts as empty
SizedOverTwo(p, size) ==
  Stepped(p, [runs[p] EXCEPT !.size = size, !.fd = "",
                             !.pc = IF size > 2 THEN "read" ELSE "exec"])

\* a size check that never serves the file
SizedRefetch(p, size) ==
  Stepped(p, [runs[p] EXCEPT !.size = size, !.fd = "", !.pc = "exec"])

\* fileSize returned size, its file is closed: if size > 0 the file is read,
\* otherwise the provider is called
Sized(p, size) ==
  Stepped(p, [runs[p] EXCEPT !.size = size, !.fd = "",
                             !.pc = IF size > 0 THEN "read" ELSE "exec"])

\* fileSize: stat, err := file.Stat() and stat.Size(), of the file that was
\* opened, whatever has become of its name
StatStep(p) ==
  /\ runs[p].pc = "stat"
  /\ Sized(p, Len(Inode(runs[p].fd)))
  /\ unnamed' = Released(runs', writer, unnamed)
  /\ UNCHANGED <<stars, files, writer, stored, last, prev, calls, srch, rend>>

\* GetStarredRepos: file, err := os.Open(path) and var data bytes.Buffer
ReadOpenStep(p) ==
  /\ runs[p].pc = "read"
  /\ IF ~fileExists(runs[p].path, files)
     THEN Fatal(p, runs[p], NotExist(runs[p].path))
     ELSE Stepped(p, [runs[p] EXCEPT !.fd = runs[p].path, !.data = <<>>, !.pc = "copy"])
  /\ UNCHANGED <<stars, files, unnamed, writer, stored, last, prev, calls, srch, rend>>

\* a Read into a buffer that holds 8 bytes at most
CopiedShort(content, off) ==
  SubSeq(content, off + 1, IF Len(content) < 8 THEN Len(content) ELSE 8)

\* one Read of io.Copy(&data, file) on a file that holds content, at offset
\* off: the bytes from there to the end of the file as it is now (the buffer
\* offers room for 512 bytes at least, more than a file holds here); no bytes
\* when the offset is at the end or beyond it
Copied(content, off) == SubSeq(content, off + 1, Len(content))

\* GetStarredRepos: one Read of io.Copy(&data, file), at the offset the reads
\* before it have reached; a Read that gives no bytes is the end of the file
\* and data is returned
CopyStep(p) ==
  /\ runs[p].pc = "copy"
  /\ IF Copied(Inode(runs[p].fd), Len(runs[p].data)) = <<>>
     THEN Stepped(p, [runs[p] EXCEPT !.fd = "", !.pc = Caller(runs[p])])
     ELSE Stepped(p, [runs[p] EXCEPT
                        !.data = @ \o Copied(Inode(runs[p].fd), Len(runs[p].data))])
  /\ unnamed' = Released(runs', writer, unnamed)
  /\ UNCHANGED <<stars, files, writer, stored, last, prev, calls, srch, rend>>

\* the provider's output kept as it was printed
ExecutedRaw(p, out) ==
  IF out.err # Nil THEN Fatal(p, Entered(runs[p], "fetch"), out.err)
  ELSE Stepped(p, [Entered(runs[p], "fetch") EXCEPT
                     !.stdout = out.stdout, !.payload = out.stdout,
                     !.listed = IF runs[p].client = "github"
                                THEN stars[AccountOf(runs[p].user)] ELSE {},
                     !.pc = "open"])

\* ghClient.Exec gave out, for the gh client the listing of the stars of that
\* moment
Executed(p, out) ==
  IF out.err # Nil THEN Fatal(p, Entered(runs[p], "fetch"), out.err)
  ELSE Stepped(p, [Entered(runs[p], "fetch") EXCEPT
                     !.stdout = out.stdout, !.payload = ReplaceAll(out.stdout),
                     !.listed = IF runs[p].client = "github"
                                THEN stars[AccountOf(runs[p].user)] ELSE {},
                     !.pc = "open"])

\* GetStarredRepos: stdOut, _, err := ghClient.Exec(args...) and the
\* replacement of "]["
ExecStep(p) ==
  /\ runs[p].pc = "exec"
  /\ \E out \in Exec(runs[p].client, runs[p].user, stars) : Executed(p, out)
  /\ UNCHANGED <<stars, files, unnamed, writer, stored, last, prev, calls, srch, rend>>

\* GetStarredRepos: os.OpenFile(path, os.O_WRONLY|os.O_TRUNC, 0644)
OpenStep(p) ==
  /\ runs[p].pc = "open"
  /\ IF ~fileExists(runs[p].path, files)
     THEN /\ Fatal(p, runs[p], NotExist(runs[p].path))
          /\ UNCHANGED <<files, stored>>
     ELSE /\ files' = [files EXCEPT ![runs[p].path] = <<>>]
          /\ stored' = Without(stored, runs[p].path)
          /\ SteppedWriting(p, [runs[p] EXCEPT !.fd = runs[p].path, !.pc = "write"])
  /\ UNCHANGED <<stars, unnamed, writer, last, prev, calls, srch, rend>>

\* the store invocation p has made, as r, at its path
Store(p, r) ==
  [data |-> r.payload, op |-> r.op, by |-> p, acct |-> AccountOf(r.user),
   set |-> r.listed, probed |-> r.probed, key |-> r.key, cacheFile |-> r.cf]

\* the history after invocation p, as r, wrote and the file holds content: a
\* whole payload is a store
Recorded(p, r, content) ==
  IF content = r.payload
  THEN [f \in DOMAIN stored \cup {r.path} |-> IF f = r.path THEN Store(p, r) ELSE stored[f]]
  ELSE Without(stored, r.path)

\* GetStarredRepos: file.Write(resultBuffer.Bytes()) and return *resultBuffer;
\* the bytes go to the file that was opened, which has no name any more when
\* it was removed since
WriteStep(p) ==
  /\ runs[p].pc = "write"
  /\ IF runs[p].fd \in DOMAIN unnamed
     THEN /\ Stepped(p, [runs[p] EXCEPT !.data = runs[p].payload, !.fd = "",
                                        !.pc = Caller(runs[p])])
          /\ unnamed' = Released(runs', writer,
                                 [unnamed EXCEPT ![runs[p].fd] = WriteAt(@, runs[p].payload)])
          /\ UNCHANGED <<files, stored>>
     ELSE /\ files' = [files EXCEPT ![runs[p].path] = WriteAt(@, runs[p].payload)]
          /\ stored' = Recorded(p, runs[p], WriteAt(files[runs[p].path], runs[p].payload))
          /\ SteppedWriting(p, [runs[p] EXCEPT !.data = runs[p].payload, !.fd = "",
                                               !.pc = Caller(runs[p])])
          /\ UNCHANGED unnamed
  /\ UNCHANGED <<stars, writer, last, prev, calls, srch, rend>>

\* Search gave r
SearchedRun(p, r) ==
  IF r.err # Nil THEN Fatal(p, Entered(runs[p], "search"), r.err)
  ELSE Stepped(p, [Entered(runs[p], "search") EXCEPT !.found = r.found, !.pc = "render"])

\* found, err := Search(starred, find)
SearchStep(p) ==
  /\ runs[p].pc = "search"
  /\ SearchedRun(p, Search(runs[p].data, runs[p].find))
  /\ UNCHANGED <<stars, files, unnamed, writer, stored, last, prev, calls, srch, rend>>

\* Render(found, limit, os.Stdout)
RenderStep(p) ==
  /\ runs[p].pc = "render"
  /\ Stepped(p, [Entered(runs[p], "render") EXCEPT
                   !.rendered = RenderPops(runs[p].found,
                                           RenderLimit(Len(runs[p].found), runs[p].limit)),
                   !.pc = "done"])
  /\ UNCHANGED <<stars, files, unnamed, writer, stored, last, prev, calls, srch, rend>>

\* some invocation can still read the stars: a change of the stars after the
\* last listing is seen by nobody
StarsWatched ==
  \E q \in Procs : runs[q].pc \in {"idle", "probe", "path", "create", "size", "stat", "exec"}

\* some invocation can still use the files
FilesWatched == \E q \in Procs : runs[q].pc \in {"idle", "probe", "path"} \cup InFlight

\* ---------------------------------------------------------------------------
\* GetCachePath called on its own, as TestGetCachePath does, step by step,
\* while the file of a derived path is written and removed from outside
\* ---------------------------------------------------------------------------
\* the keys and --cache-file values it is called with
PathKeys == {ZeroKey, TestKey, TestKeyTail, HeaderDigest(<<>>)}
PathCacheFiles == {"", OverridePath, "/tmp/test.json"}

InitPath == Init

NextPath ==
  \/ \E p \in Procs, k \in PathKeys, cf \in PathCacheFiles : CallGetCachePath(p, k, cf)
  \/ \E p \in Procs : PathStep(p)
  \/ \E p \in Procs : CreateStep(p)
  \/ FilesWatched /\ TestOpenFile(Join(TempDir, "stars_2d06a89b2687.json"))
  \/ \E c \in {TestCacheContent} : FilesWatched /\ TestCopy(c)
  \/ FilesWatched /\ TestClose
  \/ \E f \in DOMAIN files : FilesWatched /\ RemoveFile(f)

SpecPath == InitPath /\ [][NextPath]_vars

\* ---------------------------------------------------------------------------
\* The command invoked once or twice, side by side or one after the other,
\* step by step, while the user stars
\* ---------------------------------------------------------------------------
\* at the start no cache file exists, or the file of --cache-file was
\* prepared as FetchStarredReposFromCache does, or it exists and is empty
InitRuns ==
  /\ srch = NoSearch
  /\ rend = NoRender
  /\ runs = [p \in Procs |-> NoRun]
  /\ stars = [a \in Accounts |-> {}]
  /\ files \in {NoFiles, [p \in {OverridePath} |-> TestCacheContent],
                [p \in {OverridePath} |-> <<>>]}
  /\ unnamed = NoFiles
  /\ writer = NoWriter
  /\ stored = NoFiles
  /\ last = NoCall
  /\ prev = Summary(NoCall)
  /\ calls = 0

\* the user stars the repositories in the order of their numbers
InOrder(a, r) == \A s \in Repos : s < r => s \in stars[a]

NextRuns ==
  \/ \E r \in Repos : StarsWatched /\ InOrder(12345, r) /\ Star(12345, r)
  \/ \E p \in Procs, u \in RunUsers, cf \in CacheFiles, f \in RunQueries : Start(p, u, cf, f)
  \/ \E p \in Procs : ProbeStep(p)
  \/ \E p \in Procs : PathStep(p)
  \/ \E p \in Procs : CreateStep(p)
  \/ \E p \in Procs : SizeOpenStep(p)
  \/ \E p \in Procs : StatStep(p)
  \/ \E p \in Procs : ReadOpenStep(p)
  \/ \E p \in Procs : CopyStep(p)
  \/ \E p \in Procs : ExecStep(p)
  \/ \E p \in Procs : OpenStep(p)
  \/ \E p \in Procs : WriteStep(p)
  \/ \E p \in Procs : SearchStep(p)
  \/ \E p \in Procs : RenderStep(p)

SpecRuns == InitRuns /\ [][NextRuns]_vars

\* ---------------------------------------------------------------------------
\* The command and the calls of the tests, step by step, side by side, while
\* the cache file is written and removed from outside
\* ---------------------------------------------------------------------------
\* the --find of these invocations
AnyQuery == <<97>>

\* no invocation is under way
NoneRunning == \A q \in Procs : runs[q].pc \notin {"probe", "path"} \cup InFlight

\* the user has starred nothing, or every repository
InitCache ==
  /\ srch = NoSearch
  /\ rend = NoRender
  /\ runs = [p \in Procs |-> NoRun]
  /\ stars \in {[a \in Accounts |-> IF a = 12345 THEN s ELSE {}] : s \in {{}, Repos}}
  /\ files = NoFiles
  /\ unnamed = NoFiles
  /\ writer = NoWriter
  /\ stored = NoFiles
  /\ last = NoCall
  /\ prev = Summary(NoCall)
  /\ calls = 0

Next ==
  \/ FilesWatched /\ TestOpenFile(OverridePath)
  \/ \E c \in {TestCacheContent} : FilesWatched /\ TestCopy(c)
  \/ FilesWatched /\ TestClose
  \/ \E f \in DOMAIN files : FilesWatched /\ RemoveFile(f)
  \/ \E p \in Procs, u \in {"Link-", ""}, cf \in CacheFiles : Start(p, u, cf, AnyQuery)
  \/ \E p \in Procs, c \in {"MockGithub"}, k \in {ZeroKey, TestKey}, cf \in CacheFiles :
       CallGetStarredRepos(p, c, "Link-", k, cf)
  \/ \E p \in Procs : ProbeStep(p)
  \/ \E p \in Procs : PathStep(p)
  \/ \E p \in Procs : CreateStep(p)
  \/ \E p \in Procs : SizeOpenStep(p)
  \/ \E p \in Procs : StatStep(p)
  \/ \E p \in Procs : ReadOpenStep(p)
  \/ \E p \in Procs : CopyStep(p)
  \/ \E p \in Procs : ExecStep(p)
  \/ \E p \in Procs : OpenStep(p)
  \/ \E p \in Procs : WriteStep(p)

Spec == InitCache /\ [][Next]_vars

\* ---------------------------------------------------------------------------
\* The command invoked twice, one invocation after the other, step by step,
\* while the user stars and unstars
\* ---------------------------------------------------------------------------
NextStars ==
  \/ \E r \in Repos : StarsWatched /\ Star(12345, r)
  \/ \E r \in Repos : StarsWatched /\ Unstar(12345, r)
  \/ \E p \in Procs, cf \in CacheFiles : NoneRunning /\ Start(p, "Link-", cf, AnyQuery)
  \/ \E p \in Procs : ProbeStep(p)
  \/ \E p \in Procs : PathStep(p)
  \/ \E p \in Procs : CreateStep(p)
  \/ \E p \in Procs : SizeOpenStep(p)
  \/ \E p \in Procs : StatStep(p)
  \/ \E p \in Procs : ReadOpenStep(p)
  \/ \E p \in Procs : CopyStep(p)
  \/ \E p \in Procs : ExecStep(p)
  \/ \E p \in Procs : OpenStep(p)
  \/ \E p \in Procs : WriteStep(p)

SpecStars == Init /\ [][NextStars]_vars

\* ---------------------------------------------------------------------------
\* Properties of the cache (specifications Spec and SpecStars)
\* ---------------------------------------------------------------------------
\* the stages invocation p has entered
StagesOf(p) == {runs[p].trace[i] : i \in 1..Len(runs[p].trace)}

\* how often invocation p has called the provider
Fetches(p) == Cardinality({i \in 1..Len(runs[p].trace) : runs[p].trace[i] = "fetch"})

\* GetStarredRepos of invocation p has returned, with data or with an error
Back(p) ==
  \/ runs[p].pc \in {"search", "render", "done"}
  \/ runs[p].pc = "failed" /\ "cache" \in StagesOf(p)

\* invocation p was alone with its file from the first look of GetCachePath at
\* the file system on: nobody else has created, written or removed the file
\* since.  The guarantees of the cache are given for that case
Alone(p) == runs[p].path # "" /\ runs[p].quiet

\* invocation p takes the step that leaves pc
Leaves(p, pc) == runs[p].pc = pc /\ runs'[p].pc # pc

\* the whole listing of a starred set as one JSON array
OneArray(set) == <<91>> \o JoinRecords(SetToSeq(set)) \o <<93>>

\* the size check of p gives the length of the file it opened, which is the
\* file at its path when p is alone with it
SizeIsLength(p) ==
  Leaves(p, "stat") =>
    /\ runs'[p].size = Len(Inode(runs[p].fd))
    /\ Alone(p) => (/\ runs[p].fd = runs[p].path
                    /\ runs'[p].size = Len(files[runs[p].path]))

\* a hit of p, alone with its file, returns the bytes of the file
HitReturnsFile(p) ==
  (Leaves(p, "copy") /\ Alone(p)) =>
    /\ runs'[p].err = Nil
    /\ runs'[p].data = files[runs[p].path]
    /\ Len(runs'[p].data) = runs[p].size
    /\ files' = files

\* C1: in GetStarredRepos the size of the file at the resolved path decides
\* alone between hit and miss: with a size above 0 the call returns exactly the
\* bytes of the file and ghClient.Exec is not called; with size 0 Exec is
\* called exactly once.
C1_HitMissBySize ==
  /\ [](\A p \in Procs :
          /\ (runs[p].size > 0) =>
               /\ Fetches(p) = 0
               /\ runs[p].pc \notin {"exec", "open", "write"}
               /\ (Back(p) /\ Alone(p)) =>
                     (runs[p].err = Nil /\ Len(runs[p].data) = runs[p].size)
          /\ (runs[p].size = 0) =>
               /\ runs[p].pc \notin {"read", "copy"}
               /\ Fetches(p) = (IF runs[p].pc = "exec" THEN 0 ELSE 1))
  /\ [][\A p \in Procs : SizeIsLength(p) /\ HitReturnsFile(p)]_vars

\* a hit on a file that an earlier call stored
C1_Witness ==
  \E p \in Procs :
    /\ Back(p) /\ Alone(p) /\ runs[p].size > 0 /\ Fetches(p) = 0
    /\ runs[p].path \in DOMAIN runs[p].preStored
    /\ runs[p].data = runs[p].preStored[runs[p].path].data

\* the files other than f are the same before and after the step
OthersKept(f) ==
  /\ DOMAIN files' \ {f} = DOMAIN files \ {f}
  /\ \A g \in DOMAIN files \ {f} : files'[g] = files[g]

\* the write of p, alone with its file, leaves the payload and nothing else in
\* the file and returns it
WriteReplaces(p) ==
  (Leaves(p, "write") /\ Alone(p)) =>
    /\ runs[p].path \in DOMAIN files'
    /\ files'[runs[p].path] = runs[p].payload
    /\ runs'[p].data = runs[p].payload
    /\ runs'[p].err = Nil
    /\ (runs[p].op = "Run") => (runs[p].payload = OneArray(runs[p].listed))
    /\ (runs[p].op = "GetStarredRepos") => (runs[p].payload = runs[p].stdout)

\* a step of p changes no file but the one at its path
OwnFileOnly(p) ==
  (runs'[p].pc # runs[p].pc) => OthersKept(runs'[p].path)

\* C2: on a miss with a successful fetch the file at the resolved path holds
\* exactly the fetched payload (with "][" replaced) and nothing else, the call
\* returns exactly the bytes it wrote, and every other file is as it was.
C2_MissReplacesFile ==
  /\ [](\A p \in Procs :
          (Back(p) /\ runs[p].size = 0 /\ runs[p].err = Nil) =>
             (Fetches(p) = 1 /\ runs[p].data = runs[p].payload))
  /\ [][\A p \in Procs : WriteReplaces(p) /\ OwnFileOnly(p)]_vars

\* a miss that stored a listing of several pages while another file with
\* content was present; the listing is the one the store is remembered by
C2_Witness ==
  \E p \in Procs :
    /\ runs[p].op = "Run" /\ Back(p) /\ Alone(p)
    /\ runs[p].size = 0 /\ runs[p].err = Nil
    /\ Cardinality(runs[p].listed) > PerPage
    /\ runs[p].path \in DOMAIN stored /\ stored[runs[p].path].by = p
    /\ files[runs[p].path] = OneArray(runs[p].listed)
    /\ \E f \in DOMAIN files \ {runs[p].path} : Len(files[f]) > 0

\* the store invocation p found untouched at its path when it resolved it
StoreFound(p) == runs[p].preStored[runs[p].path]

\* invocation p resolved a path at which a store was untouched, and was alone
\* with the file until GetStarredRepos returned
AfterStore(p) ==
  /\ Back(p) /\ Alone(p)
  /\ runs[p].path \in DOMAIN runs[p].preStored

\* C3: for every payload P, when an earlier GetStarredRepos stored P at a path
\* and nothing wrote to the file since, a GetStarredRepos that resolves to that
\* path returns exactly P.
C3_RoundTripEveryPayload ==
  \A p \in Procs :
    AfterStore(p) => (runs[p].err = Nil /\ runs[p].data = StoreFound(p).data)

\* a listing of several pages stored by one invocation is returned by the next
C3_Witness ==
  \E p \in Procs :
    /\ AfterStore(p)
    /\ Len(StoreFound(p).data) > 8
    /\ StoreFound(p).op = "Run"
    /\ Cardinality(StoreFound(p).set) > PerPage
    /\ runs[p].data = StoreFound(p).data

\* invocation p is the command, its probe was answered with 200 and it has
\* resolved its path
Probed200(p) ==
  /\ runs[p].op = "Run" /\ runs[p].status = 200
  /\ "cache" \in StagesOf(p) /\ runs[p].path # ""

\* the stores of the command for the account of p that were untouched when p
\* resolved its path
EarlierStores(p) ==
  {f \in DOMAIN runs[p].preStored :
     /\ runs[p].preStored[f].op = "Run"
     /\ runs[p].preStored[f].acct = AccountOf(runs[p].user)}

\* C4 as stated: when the number of starred repositories differs between an
\* earlier invocation and this one, GenerateCacheKey returns a different key
\* and the file the earlier invocation stored is not reused.
C4_CountChangeChangesKey ==
  \A p \in Procs :
    Probed200(p) =>
      \A f \in EarlierStores(p) :
        (Cardinality(runs[p].preStored[f].probed) # Cardinality(runs[p].probed))
        => /\ runs[p].key # runs[p].preStored[f].key
           /\ ~(runs[p].path = f /\ runs[p].size > 0)

\* C5: when one repository was starred and another unstarred between two
\* invocations, so that the count is the same, the key is the same and the
\* second invocation is a hit that returns the listing stored before the swap,
\* which is not the current one, without calling ghClient.Exec.
C5_SwapServesStale ==
  \A p \in Procs :
    Probed200(p) =>
      \A f \in EarlierStores(p) :
        (/\ runs[p].preStored[f].cacheFile = runs[p].cf
         /\ Cardinality(runs[p].preStored[f].probed) = Cardinality(runs[p].probed)
         /\ runs[p].preStored[f].set # runs[p].probed)
        => /\ runs[p].key = runs[p].preStored[f].key
           /\ runs[p].path = f
           /\ (Back(p) /\ Alone(p)) =>
                /\ Fetches(p) = 0
                /\ runs[p].err = Nil
                /\ runs[p].data = runs[p].preStored[f].data
                /\ runs[p].data = OneArray(runs[p].preStored[f].set)
                /\ runs[p].data # OneArray(runs[p].probed)

\* a swap among two or more starred repositories, without --cache-file
C5_Witness ==
  \E p \in Procs :
    /\ Probed200(p) /\ runs[p].cf = "" /\ AfterStore(p)
    /\ Cardinality(runs[p].probed) >= 2
    /\ Fetches(p) = 0
    /\ StoreFound(p).op = "Run" /\ StoreFound(p).cacheFile = ""
    /\ StoreFound(p).probed = StoreFound(p).set
    /\ Cardinality(StoreFound(p).set) = Cardinality(runs[p].probed)
    /\ StoreFound(p).set # runs[p].probed
    /\ runs[p].data = OneArray(StoreFound(p).set)

\* invocation p resolved a path at which no file existed
MissingFile(p) ==
  "cache" \in StagesOf(p) /\ runs[p].path # "" /\ ~runs[p].existed

\* C11 as stated: for every resolved path, derived or given with --cache-file,
\* whose file does not exist, an empty file is created and the call goes on as
\* a miss (size 0, ghClient.Exec called) instead of failing on the missing file.
C11_MissingFileIsMiss ==
  \A p \in Procs :
    (MissingFile(p) /\ Alone(p)) =>
      /\ (runs[p].pc = "size") => (runs[p].path \in DOMAIN files)
      /\ Back(p) => (runs[p].size = 0 /\ Fetches(p) = 1)

\* a payload that is not empty and is no array of repository records
Unparsable(data) == data # <<>> /\ Unmarshal(data).err # Nil

\* the write of p, alone with its file, stores the output of the provider as
\* it is but for the replacement of "]["
StoresUnparsed(p) ==
  (Leaves(p, "write") /\ Alone(p)) =>
    files'[runs[p].path] = ReplaceAll(runs[p].stdout)

\* C26: GetStarredRepos stores the fetched payload without parsing it, and
\* once a payload that is not empty and is no valid array of repositories is
\* stored at a path, every later call that resolves to that path is a hit: it
\* does not call the provider and returns the stored bytes, and Search on them
\* fails with a parse error for every query
C26_BadPayloadStaysCached ==
  /\ [](\A p \in Procs :
          (AfterStore(p) /\ Unparsable(StoreFound(p).data)) =>
             /\ runs[p].size > 0 /\ Fetches(p) = 0 /\ runs[p].err = Nil
             /\ runs[p].data = StoreFound(p).data
             /\ \A find \in Queries :
                  /\ Search(runs[p].data, find).err
                       \in {"*json.SyntaxError", "*json.UnmarshalTypeError"}
                  /\ Search(runs[p].data, find).found = <<>>)
  /\ [][\A p \in Procs : StoresUnparsed(p)]_vars

\* the command, run with --cache-file, was served the output an earlier call
\* had stored there, which is no JSON
C26_Witness ==
  \E p \in Procs :
    /\ runs[p].op = "Run" /\ AfterStore(p) /\ Fetches(p) = 0 /\ runs[p].err = Nil
    /\ StoreFound(p).op = "GetStarredRepos"
    /\ runs[p].data = MockOutput
    /\ Unparsable(runs[p].data)

\* ---------------------------------------------------------------------------
\* Properties of GetCachePath (specification SpecPath)
\* ---------------------------------------------------------------------------
\* C6: with a non-empty --cache-file, GetCachePath returns that path unchanged
\* and no error, for every key, the all-zero key included.
C6_OverrideWins ==
  (last.op = "GetCachePath" /\ last.cacheFile # "") =>
    (last.path = last.cacheFile /\ last.err = Nil)

\* the all-zero key with --cache-file set
C6_Witness ==
  /\ last.op = "GetCachePath" /\ last.key = ZeroKey
  /\ last.cacheFile = "/tmp/test_pull_cache.json"
  /\ last.path = "/tmp/test_pull_cache.json"

\* C7: without --cache-file and with a key that is not all-zero, GetCachePath
\* returns <temp dir>/stars_<hex of the first 6 bytes of the key>.json, and two
\* calls whose keys agree on the first 6 bytes return the same path.
C7_DerivedPath ==
  (last.op = "GetCachePath" /\ last.cacheFile = "" /\ last.key # ZeroKey) =>
    /\ last.err = Nil
    /\ last.path = "/tmp/stars_" \o HexString(SubSeq(last.key, 1, 6)) \o ".json"
    /\ (SubSeq(last.key, 1, 6) = <<45, 6, 168, 155, 38, 135>>)
         => (last.path = "/tmp/stars_2d06a89b2687.json")
    /\ (SubSeq(last.key, 1, 6) = <<227, 176, 196, 66, 152, 252>>)
         => (last.path = "/tmp/stars_e3b0c44298fc.json")
    /\ (/\ prev.op = "GetCachePath" /\ prev.cacheFile = "" /\ prev.key # ZeroKey
        /\ SubSeq(prev.key, 1, 6) = SubSeq(last.key, 1, 6))
         => (prev.path = last.path)

\* two calls in a row whose keys differ only after byte 6
C7_Witness ==
  /\ last.op = "GetCachePath" /\ last.cacheFile = ""
  /\ prev.op = "GetCachePath" /\ prev.cacheFile = ""
  /\ prev.key # last.key /\ last.key # ZeroKey
  /\ SubSeq(prev.key, 1, 6) = SubSeq(last.key, 1, 6)
  /\ last.path = "/tmp/stars_2d06a89b2687.json"

\* C8: with the all-zero key and no --cache-file, GetCachePath returns an
\* error and the empty path, and creates no file.
C8_ZeroKeyRejected ==
  (last.op = "GetCachePath" /\ last.cacheFile = "" /\ last.key = ZeroKey) =>
    /\ last.err = "cacheKey cannot be empty, the implementation is faulty."
    /\ last.path = ""
    /\ files = last.pre

\* the all-zero key without --cache-file, on a file system that holds a file
C8_Witness ==
  /\ last.op = "GetCachePath" /\ last.cacheFile = "" /\ last.key = ZeroKey
  /\ last.err # Nil
  /\ DOMAIN files # {}

\* ---------------------------------------------------------------------------
\* Properties of GenerateCacheKey (specification SpecKey)
\* ---------------------------------------------------------------------------
\* the last step was a call of GenerateCacheKey that client.Do answered
Answered == last.op = "GenerateCacheKey" /\ last.user # "" /\ last.resp.err = Nil

\* C9: GenerateCacheKey maps status 403 to the rate-limit error with the
\* used/remaining/reset header values, 404 to the not-found error, every other
\* status but 200 to the unexpected-status error with the code; with every
\* error the key is the all-zero 32 bytes, and only status 200 gives a key.
C9_StatusMapping ==
  /\ (last.op = "GenerateCacheKey" /\ last.err # Nil) => (last.key = ZeroKey)
  /\ Answered =>
       /\ (last.resp.status = 403) =>
            (last.err = "API rate limit reached. Used: " \o last.resp.used
                        \o ", Remaining: " \o last.resp.remaining
                        \o ", Reset Time: " \o last.resp.reset)
       /\ (last.resp.status = 403 /\ last.resp.used = "5000") =>
            (last.err = "API rate limit reached. Used: 5000, Remaining: 0, Reset Time: 1630000000")
       /\ (last.resp.status = 404) =>
            (last.err = "User not found or you're not authorized to access this data.")
       /\ (last.resp.status = 500) => (last.err = "Unexpected HTTP status code: 500")
       /\ (last.resp.status = 204) => (last.err = "Unexpected HTTP status code: 204")
       /\ (last.err = Nil) <=> (last.resp.status = 200)
       /\ (last.resp.status = 200) => (last.key # ZeroKey)

\* a 2xx status that is not 200 is an error with the all-zero key
C9_Witness ==
  /\ Answered /\ last.resp.status = 204
  /\ last.err = "Unexpected HTTP status code: 204"
  /\ last.key = ZeroKey

\* C10: for a 200 answer the key is a function of the Link header alone (its
\* SHA-256): two calls with the same Link header give the same 32 bytes
\* whatever the user, the body and the other headers are.
C10_KeyFromLinkOnly ==
  (Answered /\ last.resp.status = 200) =>
    /\ last.err = Nil
    /\ Len(last.key) = 32
    /\ (last.resp.link = TestLink) =>
         (last.key = <<45, 6, 168, 155, 38, 135, 116, 87, 19, 239, 15, 2, 91, 143, 255, 23,
                       135, 59, 135, 14, 115, 4, 48, 10, 152, 34, 134, 129, 110, 71, 30, 110>>)
    /\ (last.resp.link = <<>>) =>
         (last.key = <<227, 176, 196, 66, 152, 252, 28, 20, 154, 251, 244, 200, 153, 111, 185, 36,
                       39, 174, 65, 228, 100, 155, 147, 76, 164, 149, 153, 27, 120, 82, 184, 85>>)
    /\ (/\ prev.op = "GenerateCacheKey" /\ prev.user # "" /\ prev.status = 200
        /\ prev.err = Nil /\ prev.link = last.resp.link)
         => (prev.key = last.key)

\* two 200 answers with the same Link header for different users and bodies
C10_Witness ==
  /\ Answered /\ last.resp.status = 200 /\ last.resp.link = TestLink
  /\ prev.op = "GenerateCacheKey" /\ prev.status = 200 /\ prev.link = TestLink
  /\ prev.user = "octocat" /\ last.user = "Link-"
  /\ prev.body # last.resp.body
  /\ prev.key = last.key

\* ---------------------------------------------------------------------------
\* Properties of Search and Render (specification SpecSearch)
\* ---------------------------------------------------------------------------
\* the items Search returned
Found == IF srch.op = "Search" THEN srch.found ELSE <<>>

\* the tiers from the lowest to the highest
TierLevel(tier) == CASE tier = "name" -> 3 [] tier = "description" -> 2 [] OTHER -> 1

\* the items of a tier among the ones Search returned
OfTier(tier) == {i \in 1..Len(Found) : Found[i].at.tier = tier}

\* C12: the tiers are strictly ordered and their scores do not overlap: every
\* match of a higher tier (name over description over topic) has a strictly
\* higher score than every match of a lower tier, so a name match outranks any
\* description match and a description match any topic match
C12_TiersStrictlyOrdered ==
  \A i, j \in 1..Len(Found) :
    TierLevel(Found[i].at.tier) > TierLevel(Found[j].at.tier)
      => Found[i].Priority > Found[j].Priority

\* one search matched an exact name word, a description word and a topic
C12_Witness ==
  /\ \E i \in OfTier("name") : Found[i].at.rank = 0
  /\ OfTier("description") # {}
  /\ OfTier("topic") # {}

\* C13: within one tier a match at a smaller edit distance has a strictly
\* higher score than a match at a larger edit distance (distances 0, 1 and 2),
\* and no score leaves the band of its tier (it stays below every score of a
\* higher tier and above every score of a lower tier)
C13_CloserScoresHigher ==
  \A i, j \in 1..Len(Found) :
    /\ (Found[i].at.tier = Found[j].at.tier /\ Found[i].at.rank < Found[j].at.rank)
         => Found[i].Priority > Found[j].Priority
    /\ TierLevel(Found[i].at.tier) > TierLevel(Found[j].at.tier)
         => Found[i].Priority > Found[j].Priority

\* Search has just returned without error; Render, which works on the queue
\* it was handed, has not been called yet
SearchDone == srch.op = "Search" /\ srch.err = Nil /\ rend.pc = "idle"

\* the repositories and the needles of the search that returned
SearchedRepos == IF SearchDone THEN Unmarshal(srch.data).repos ELSE <<>>
Needles == IF SearchDone THEN Fields(srch.find) ELSE <<>>

\* the (repository, needle) pairs of the search
Pairs == (1..Len(SearchedRepos)) \X (1..Len(Needles))

\* the positions of the words among ws that are within the threshold of
\* needle ni
Qualifying(ws, ni) ==
  {w \in 1..Len(ws) : LevenshteinDistance(Needles[ni], ws[w]) <= MAX_FUZZY_DISTANCE}

\* the words of the name of repository ri that qualify for needle ni
NameHits(ri, ni) == Qualifying(FieldsFunc(SearchedRepos[ri].Name), ni)

\* the items Search returned for a pair
ItemsOf(ri, ni) ==
  {i \in 1..Len(Found) : Found[i].at.repo = ri /\ Found[i].at.needle = ni}

\* C14: for every (repository, needle) pair with a word of the name (split on
\* '-' and '_') within distance 2 of the needle, Search returns exactly one
\* match of the pair: a name match, for the first such word; it returns no
\* description match and no topic match for that pair
C14_OneNameMatchPerPair ==
  \A p \in Pairs :
    NameHits(p[1], p[2]) # {}
      => \E i \in ItemsOf(p[1], p[2]) :
           /\ ItemsOf(p[1], p[2]) = {i}
           /\ Found[i].at.tier = "name"
           /\ \A w \in NameHits(p[1], p[2]) : Found[i].at.word <= w

\* a search with a pair whose name has two qualifying words, and with a pair
\* whose name, description and topics all have one
C14_Witness ==
  /\ \E p \in Pairs : Cardinality(NameHits(p[1], p[2])) >= 2
  /\ \E p \in Pairs :
       /\ NameHits(p[1], p[2]) # {}
       /\ Qualifying(Fields(SearchedRepos[p[1]].Description), p[2]) # {}
       /\ Qualifying(SearchedRepos[p[1]].Topics, p[2]) # {}

\* the topic matches Search returned for topic w of a pair
TopicItems(ri, ni, w) ==
  {i \in ItemsOf(ri, ni) : Found[i].at.tier = "topic" /\ Found[i].at.word = w}

\* the topics of repository ri that qualify for needle ni
TopicHits(ri, ni) == Qualifying(SearchedRepos[ri].Topics, ni)

\* the words of the description of repository ri that qualify for needle ni
DescriptionHits(ri, ni) == Qualifying(Fields(SearchedRepos[ri].Description), ni)

\* C15 as stated: for every (repository, needle) pair and every topic of the
\* repository within distance 2 of the needle, Search pushes one topic match,
\* whether or not the name or the description of the pair matched
C15_TopicsAlwaysEvaluated ==
  \A p \in Pairs : \A w \in TopicHits(p[1], p[2]) :
    Cardinality(TopicItems(p[1], p[2], w)) = 1

\* C15, amended: for every (repository, needle) pair whose name has no word
\* within distance 2 of the needle, Search pushes one topic match for every
\* topic within distance 2, whether or not a word of the description matched;
\* for a pair whose name matched it pushes no topic match
C15_TopicsUnlessNameMatched ==
  \A p \in Pairs : \A w \in TopicHits(p[1], p[2]) :
    Cardinality(TopicItems(p[1], p[2], w)) = IF NameHits(p[1], p[2]) = {} THEN 1 ELSE 0

\* a search with a qualifying topic in a pair whose description matched, in a
\* pair where nothing else matched, and in a pair whose name matched
C15_Witness ==
  /\ \E p \in Pairs :
       /\ NameHits(p[1], p[2]) = {} /\ DescriptionHits(p[1], p[2]) # {}
       /\ TopicHits(p[1], p[2]) # {}
  /\ \E p \in Pairs :
       /\ NameHits(p[1], p[2]) = {} /\ DescriptionHits(p[1], p[2]) = {}
       /\ TopicHits(p[1], p[2]) # {}
  /\ \E p \in Pairs : NameHits(p[1], p[2]) # {} /\ TopicHits(p[1], p[2]) # {}

\* the number of matches a pair qualifies for: one for the name, or else one
\* for every qualifying word of the description and every qualifying topic
Qualified(ri, ni) ==
  IF NameHits(ri, ni) # {} THEN 1
  ELSE Cardinality(DescriptionHits(ri, ni)) + Cardinality(TopicHits(ri, ni))

\* the sum of Qualified over a set of pairs
RECURSIVE SumQualified(_)
SumQualified(ps) ==
  IF ps = {} THEN 0
  ELSE LET p == CHOOSE q \in ps : TRUE
       IN Qualified(p[1], p[2]) + SumQualified(ps \ {p})

\* C16: Search does not deduplicate: the length of the queue it returns is
\* the sum over the (repository, needle) pairs of 1 for a name hit, or else of
\* the number of qualifying description words plus the number of qualifying
\* topics
C16_NoDeduplication ==
  SearchDone => Len(Found) = SumQualified(Pairs)

\* a search that returned the same repository three times or more, for a pair
\* with two qualifying description words and for the same needle given twice
C16_Witness ==
  /\ \E ri \in 1..Len(SearchedRepos) :
       Cardinality({i \in 1..Len(Found) : Found[i].at.repo = ri}) >= 3
  /\ \E p \in Pairs : NameHits(p[1], p[2]) = {} /\ Cardinality(DescriptionHits(p[1], p[2])) >= 2
  /\ \E ni, nj \in 1..Len(Needles) : ni # nj /\ Needles[ni] = Needles[nj]
  /\ Len(Found) > Len(SearchedRepos) * Len(Needles)

\* C17: for every dataset that parses, Search with the empty query string
\* returns a queue of length 0 and no error
C17_EmptyQueryFindsNothing ==
  (srch.op = "Search" /\ srch.find = <<>> /\ Unmarshal(srch.data).err = Nil)
    => Len(srch.found) = 0 /\ srch.err = Nil

\* Search has returned for the empty query and a dataset of two repositories,
\* one of them with an empty description
C17_Witness ==
  /\ SearchDone /\ srch.find = <<>>
  /\ Len(SearchedRepos) >= 2
  /\ \E ri \in 1..Len(SearchedRepos) : SearchedRepos[ri].Description = <<>>

\* C18: if the payload cannot be parsed as an array of repository records,
\* Search returns an error and no match at all (the nil queue), never the
\* matches of the records read before the failure
C18_NoPartialResults ==
  (srch.op = "Search" /\ srch.data \in BadPayloads)
    => srch.err # Nil /\ srch.found = <<>>

\* Search has returned an error for a payload whose decoded part holds a
\* repository with a name that matches a needle
C18_Witness ==
  /\ srch.op = "Search" /\ srch.err # Nil /\ srch.data \in BadPayloads
  /\ \E ri \in 1..Len(Unmarshal(srch.data).repos), ni \in 1..Len(Fields(srch.find)) :
       FirstMatch(Fields(srch.find)[ni], FieldsFunc(Unmarshal(srch.data).repos[ri].Name), 1) > 0

\* the number of entries Render has popped
Pops == Len(rend.popped)

\* C19: for a queue of length n Render pops exactly min(limit, n) entries
\* when limit >= 0 and exactly n entries when limit is -1; for every limit the
\* number of pops is between 0 and n, and Render never pops from an empty queue
C19_PopsWithinQueue ==
  /\ rend.pc # "panic"
  /\ Pops >= 0 /\ Pops <= rend.n
  /\ rend.pc \in {"popping", "done"} => Pops + Len(rend.queue) = rend.n
  /\ rend.pc = "done" =>
       /\ rend.limit >= 0 => Pops = (IF rend.limit < rend.n THEN rend.limit ELSE rend.n)
       /\ rend.limit = -1 => Pops = rend.n

\* Render is over for a limit above the length of a queue that was not empty
C19_Witness ==
  rend.pc = "done" /\ rend.limit > rend.n /\ rend.n > 0 /\ Pops = rend.n

\* the scores of the entries Render has popped, in the order of the pops
PoppedScores == [k \in 1..Pops |-> rend.popped[k].Priority]

\* the K popped entries are the K highest of the queue: none that is left has
\* a higher score than one that was popped
PoppedAreHighest ==
  \A k \in 1..Pops, i \in 1..Len(rend.queue) :
    rend.popped[k].Priority >= rend.queue[i].Priority

\* C20 as stated: the entries Render pops come out in strictly descending
\* score order, each with a score strictly lower than the one popped before
\* it, and the K popped entries are the K highest of the queue
C20_StrictlyDescending ==
  /\ \A k \in 2..Pops : PoppedScores[k] < PoppedScores[k - 1]
  /\ PoppedAreHighest

\* C20, amended: the entries Render pops come out in descending score order,
\* each with a score lower than or equal to the one popped before it (entries
\* of equal score follow each other), and the K popped entries are the K
\* highest of the queue
C20_Descending ==
  /\ \A k \in 2..Pops : PoppedScores[k] <= PoppedScores[k - 1]
  /\ PoppedAreHighest

\* Render has popped, from a queue Search returned, two entries of equal score
\* and then one of a lower score, and has left entries in the queue
C20_Witness ==
  /\ srch.op = "Search" /\ rend.pc = "done" /\ Pops >= 3 /\ rend.queue # <<>>
  /\ PoppedScores[1] = PoppedScores[2]
  /\ PoppedScores[3] < PoppedScores[2]

\* C24: the distance term rank/(rank+1) is truncated to 0, so every match
\* Search pushes has the score of its tier whatever its distance (0, 1 or 2):
\* 1000 for a name match, 250 for a description match, 25 for a topic match
C24_ConstantScorePerTier ==
  \A i \in 1..Len(Found) :
    /\ Found[i].at.rank \in 0..MAX_FUZZY_DISTANCE
    /\ Found[i].Priority =
         (CASE Found[i].at.tier = "name" -> 1000
            [] Found[i].at.tier = "description" -> 250
            [] OTHER -> 25)

\* one search returned matches of the three tiers and of the three distances,
\* among them a name match at a distance above 0
C24_Witness ==
  /\ \A t \in {"name", "description", "topic"} : OfTier(t) # {}
  /\ \A r \in 0..MAX_FUZZY_DISTANCE : \E i \in 1..Len(Found) : Found[i].at.rank = r
  /\ \E i \in OfTier("name") : Found[i].at.rank > 0

\* ---------------------------------------------------------------------------
\* Properties of the command (specification SpecRuns)
\* ---------------------------------------------------------------------------
\* the stages in the order of a hit and in the order of a miss
HitStages == <<"probe", "cache", "search", "render">>
MissStages == <<"probe", "cache", "fetch", "search", "render">>

\* t is the beginning of s
IsPrefix(t, s) == Len(t) <= Len(s) /\ t = SubSeq(s, 1, Len(t))

\* the stages invocation p entered are in order, each at most once; after a
\* failure nothing was rendered; a probe answered with 403 failed the run in
\* its first stage
StagesOrdered(p) ==
  /\ IsPrefix(runs[p].trace, HitStages) \/ IsPrefix(runs[p].trace, MissStages)
  /\ runs[p].pc = "failed" => ("render" \notin {runs[p].trace[i] : i \in 1..Len(runs[p].trace)}
                               /\ runs[p].rendered = <<>>)
  /\ runs[p].pc = "done" => runs[p].trace \in {HitStages, MissStages}
  /\ runs[p].status = 403 =>
       /\ runs[p].pc = "failed" /\ runs[p].trace = <<"probe">>
       /\ runs[p].data = <<>> /\ runs[p].rendered = <<>>

\* an invocation that is over takes no further step
OverIsFinal ==
  \A p \in Procs : runs[p].pc \in {"failed", "done"} => runs'[p] = runs[p]

\* C22: in one invocation the stages run in the order probe, cache resolution,
\* (fetch on a miss), search, render, each at most once; the first stage that
\* fails ends the run: no stage is retried, no later stage runs and nothing is
\* rendered, also when the probe is answered with 403 and a cache file that is
\* not empty exists for the path
C22_StagesOnceInOrder ==
  /\ [](\A p \in Procs : StagesOrdered(p))
  /\ [][OverIsFinal]_vars

\* an invocation with --cache-file failed on a 403 probe while the file of
\* that path is not empty
C22_Witness ==
  \E p \in Procs :
    /\ runs[p].pc = "failed" /\ runs[p].status = 403 /\ runs[p].cf = OverridePath
    /\ OverridePath \in DOMAIN files /\ files[OverridePath] # <<>>

\* the invocations that called the provider for a path and got a payload
Fetchers(path) ==
  {p \in Procs : /\ runs[p].path = path
                 /\ runs[p].pc \in {"open", "write", "search", "render", "done", "failed"}
                 /\ "fetch" \in {runs[p].trace[i] : i \in 1..Len(runs[p].trace)}}

\* the invocations among them that have written their payload
Writers(path) ==
  {p \in Fetchers(path) :
     \/ runs[p].pc \in {"search", "render", "done"}
     \/ "search" \in {runs[p].trace[i] : i \in 1..Len(runs[p].trace)}}

\* the file at path is not empty and holds neither what it held at the start
\* nor the complete payload of an invocation
Corrupt(path) ==
  /\ files[path] # <<>>
  /\ files[path] # TestCacheContent
  /\ \A p \in Fetchers(path) : files[path] # runs[p].payload

\* C23: two invocations that run side by side on one cache path can race.
\* Whenever a cache file is not empty and holds no complete payload, two
\* invocations fetched for its path, both opened it with O_TRUNC before either
\* wrote, and the file holds the shorter payload, written last, followed by
\* the rest of the longer one; the witness shows that this state is reached
C23_RaceMixesPayloads ==
  \A path \in DOMAIN files :
    Corrupt(path) =>
      \E p, q \in Writers(path) :
        /\ p # q
        /\ Len(runs[q].payload) < Len(runs[p].payload)
        /\ files[path] = WriteAt(runs[p].payload, runs[q].payload)

\* both invocations are over and the cache file they shared holds a mix of
\* their payloads
C23_Witness ==
  /\ \A p \in Procs : runs[p].pc = "done"
  /\ \E path \in DOMAIN files :
       /\ Corrupt(path)
       /\ \A p \in Procs : runs[p].path = path /\ runs[p].payload # <<>>
       /\ Unmarshal(files[path]).err # Nil


\* GetStarredRepos of invocation p has returned data
Returned(p) ==
  runs[p].pc \in {"search", "render", "done"} \/ "search" \in StagesOf(p)

\* invocation p ran with --cache-file and found the file not empty
OverrideHit(p) == runs[p].cf # "" /\ runs[p].size > 0 /\ Returned(p)

\* C25: with --cache-file set, what GetStarredRepos returns depends neither on
\* the user nor on the key.  An invocation that resolves the override path
\* while the file holds the prepared content is a hit that returns these bytes
\* without calling the provider, whatever its user and key; two invocations
\* that found the file of one override path not empty return the same bytes;
\* and an invocation that starts after another one has fetched and stored its
\* listing there is served that listing, also for another user
C25_OverrideIgnoresUserAndKey ==
  /\ \A p \in Procs :
       (/\ runs[p].cf # "" /\ "cache" \in StagesOf(p) /\ runs[p].pc \notin {"size", "stat"}
        /\ runs[p].cf \in DOMAIN files /\ files[runs[p].cf] = TestCacheContent)
         => /\ runs[p].path = runs[p].cf /\ runs[p].size > 0
            /\ "fetch" \notin StagesOf(p)
            /\ Returned(p) => runs[p].data = TestCacheContent
  /\ \A p, q \in Procs :
       (OverrideHit(p) /\ OverrideHit(q) /\ runs[p].cf = runs[q].cf)
         => /\ runs[p].data = runs[q].data
            /\ "fetch" \notin StagesOf(p) \cup StagesOf(q)
  /\ \A p, q \in Procs :
       (/\ OverrideHit(q) /\ p \in runs[q].after /\ runs[p].cf = runs[q].cf
        /\ "fetch" \in StagesOf(p) /\ Returned(p))
         => runs[q].data = runs[p].payload /\ "fetch" \notin StagesOf(q)

\* two invocations for different users, with different keys, were both served
\* the prepared content of the override path
C25_Witness ==
  \E p, q \in Procs :
    /\ OverrideHit(p) /\ OverrideHit(q) /\ runs[p].cf = runs[q].cf
    /\ runs[p].user # runs[q].user /\ runs[p].key # runs[q].key
    /\ AccountOf(runs[p].user) # AccountOf(runs[q].user)
    /\ runs[p].data = TestCacheContent /\ runs[q].data = TestCacheContent

\* invocation p ended because the provider failed on a cache miss
FetchFailed(p) ==
  /\ runs[p].pc = "failed"
  /\ runs[p].trace = <<"probe", "cache", "fetch">>
  /\ runs[p].err \in {o.err : o \in Exec("github", runs[p].user, stars)} \ {Nil}

\* C27: when the provider fails on a cache miss, GetStarredRepos returns the
\* error and writes nothing: the invocation returns no data, the file at the
\* resolved path exists and has zero length unless another invocation wrote
\* it, and an invocation that starts afterwards and resolves to the same path
\* finds size zero and calls the provider again
C27_FailedFetchLeavesMiss ==
  \A p \in Procs :
    FetchFailed(p) =>
      /\ runs[p].size = 0
      /\ runs[p].data = <<>> /\ runs[p].payload = <<>>
      /\ runs[p].path \in DOMAIN files
      /\ Writers(runs[p].path) = {} => files[runs[p].path] = <<>>
      /\ \A q \in Procs :
           (/\ p \in runs[q].after
            /\ runs[q].path = runs[p].path
            /\ runs[q].pc \notin {"path", "create", "size", "stat"})
             => /\ runs[q].size = 0
                /\ runs[q].pc # "exec" => "fetch" \in StagesOf(q)

\* the provider failed for one invocation on a derived path, which left only
\* the empty placeholder, and the next invocation on that path called the
\* provider again and stored a listing
C27_Witness ==
  \E p, q \in Procs :
    /\ FetchFailed(p) /\ runs[p].cf = ""
    /\ p \in runs[q].after /\ runs[q].path = runs[p].path
    /\ runs[q].size = 0 /\ "fetch" \in StagesOf(q) /\ runs[q].pc = "done"
    /\ files[runs[q].path] = runs[q].payload /\ runs[q].payload # <<>>

====
